---- MODULE Spec2Model ----
(***************************************************************************)
(* A model of the ART motion-control core: the PID controller (PID.cpp),   *)
(* the TankDrive command mixer (TankDrive.cpp) and the blocking motion     *)
(* primitives of SmartDrive (SmartDrive.cpp).                              *)
(*                                                                         *)
(* Representation.                                                         *)
(*  - The clock (std::chrono::high_resolution_clock) is an integer count   *)
(*    of ticks, TicksPerMs ticks to the millisecond, so that the           *)
(*    truncation of duration_cast<milliseconds> is visible.                *)
(*  - timeout and settleTimeout are doubles in seconds in the code; the    *)
(*    model holds them in whole milliseconds.  The code compares           *)
(*    count()/1000.f with the timeout; for a timeout that a float holds    *)
(*    exactly (0.25, 0.5, 1, 2, ...) that is the comparison of count()     *)
(*    with the timeout in milliseconds, which is what the model computes.  *)
(*  - The other doubles (errors, gains, commands) are integers.            *)
(*  - An Angle is held in degrees: the code holds radians, a positive      *)
(*    multiple (3.14159265f/180) of the model's value, which changes no    *)
(*    sign test and no comparison between two angles.                      *)
(*  - The odometry holds a Length in units of pi/4 pixel (the m_value of   *)
(*    a Length is in pixels), so that the travel of a wheel of a whole     *)
(*    number of pixels across is a whole number; headings are whole        *)
(*    quarter turns and shaft positions whole revolutions, for which the   *)
(*    sines and cosines are 0, 1 and -1.                                   *)
(***************************************************************************)
EXTENDS Integers, Sequences, FiniteSets, TLC

VARIABLES
    now,        \* the clock, in ticks
    pid,        \* the PID objects, by name
    last,       \* the last call made on a PID or a TankDrive by its user, [op, val] with val what it returned and the arguments it was given where a property reads them: NoCall after a step that is no such call
    lastReset,  \* history: per PID, the time of its last reset(), -1 before the first
    lastUnsettled, \* history: per PID, the time of the last calculate(e) with |e| > settleZone since the last reset(), -1 if none
    cmdX, cmdY, cmdRot,   \* TankDrive::m_cmdX, m_cmdY, m_cmdRot
    leftCmd, rightCmd,    \* m_left.m_cmd, m_right.m_cmd (SimpleMotorGroup)
    call,       \* the motion primitive in progress and its locals
    done,       \* history: the locals of the primitive that has just returned, Idle once the next is called
    odom,       \* the odometry of a SmartDrive: m_pos, m_centerPos, m_dir, m_LastLeftPos, m_LastRightPos, m_tracker, the static prevDir of track() and the place of the tracking thread in track()
    sensors     \* the devices track() reads: the inertial sensor, the shafts of the two sides and the rotation sensor of the tracker

pidVars == <<pid, last, lastReset, lastUnsettled>>
tankVars == <<cmdX, cmdY, cmdRot, leftCmd, rightCmd>>
driveVars == <<call, done>>
trackVars == <<odom, sensors>>
vars == <<now, pid, last, lastReset, lastUnsettled, cmdX, cmdY, cmdRot, leftCmd, rightCmd, call, done, odom, sensors>>

----------------------------------------------------------------------------
(* Bounds *)

\* the PID specification runs the clock up to this many ticks
MaxTimePID == 5
\* the clock reads at most this many ticks when a PID is constructed
MaxStart == 1
\* timeouts and settle timeouts of the PID specification, in ms: 0..MaxTimeoutMs
MaxTimeoutMs == 1
\* errors fed to calculate() in the PID specification: -MaxErr and 0..MaxErr
MaxErr == 2
\* settle zones of the PID specification: 0..MaxZone
MaxZone == 1
\* calculate() is not called when the integral would leave -MaxIntegral..MaxIntegral
MaxIntegral == 3
\* the drive specification runs the clock up to this many ticks
MaxTimeDrive == 160
\* a wait(20, msec) returns up to this many ticks late
MaxJitter == 0

----------------------------------------------------------------------------
(* PID *)

\* the ticks of high_resolution_clock in a millisecond: the clock is finer than
\* the milliseconds that timePassed() and settledTimePassed() count
TicksPerMs == 2

Abs(x) == IF x < 0 THEN -x ELSE x

\* a default-constructed TimePoint is the clock's epoch
Epoch == 0

\* a constructor that leaves kp at its member initialiser, 0
NewPIDNoGain(t) ==
    [error |-> 0, prevError |-> 0, derivative |-> 0, integral |-> 0,
     integralZone |-> 0,
     kp |-> 0, ki |-> 0, kd |-> 0, ff |-> 0,
     startTime |-> t, timeout |-> 0,
     startSettledTime |-> Epoch, settleTimeout |-> 0, settleZone |-> 0]

\* a constructor that starts the settle window as well as the run window
NewPIDBothStarted(t) ==
    [error |-> 0, prevError |-> 0, derivative |-> 0, integral |-> 0,
     integralZone |-> 0,
     kp |-> 1, ki |-> 0, kd |-> 0, ff |-> 0,
     startTime |-> t, timeout |-> 0,
     startSettledTime |-> t, settleTimeout |-> 0, settleZone |-> 0]

\* PID::PID() with the member initialisers of PID.h
NewPID(t) ==
    [error |-> 0, prevError |-> 0, derivative |-> 0, integral |-> 0,
     integralZone |-> 0,
     kp |-> 1, ki |-> 0, kd |-> 0, ff |-> 0,
     startTime |-> t, timeout |-> 0,
     startSettledTime |-> Epoch, settleTimeout |-> 0, settleZone |-> 0]

\* reset() that also returns the integral zone to its default
PIDResetWithZone(p, t) ==
    [p EXCEPT !.error = 0, !.prevError = 0, !.derivative = 0, !.integral = 0,
              !.integralZone = 0,
              !.startTime = t, !.startSettledTime = t]

\* PID::reset() called at time t
PIDReset(p, t) ==
    [p EXCEPT !.error = 0, !.prevError = 0, !.derivative = 0, !.integral = 0,
              !.startTime = t, !.startSettledTime = t]

\* IntegralStep with the zone test taken as |e| <= integralZone
IntegralStepAtZone(p, e) ==
    IF Abs(e) <= p.integralZone THEN p.integral + e ELSE 0

\* the integral after calculate(e)
IntegralStep(p, e) ==
    IF Abs(e) < p.integralZone THEN p.integral + e ELSE 0

\* calculate(e) that leaves the settle window alone
SettleStepKept(p, e, t) == p.startSettledTime

\* SettleStep with the zone test taken as |e| >= settleZone
SettleStepAtZone(p, e, t) ==
    IF Abs(e) >= p.settleZone THEN t ELSE p.startSettledTime

\* the settle window start after calculate(e) at time t
SettleStep(p, e, t) ==
    IF Abs(e) > p.settleZone THEN t ELSE p.startSettledTime

\* calculate(error) with the derivative taken as error - prevError
PIDCalculateRising(p, e, t) ==
    [p EXCEPT !.error = e,
              !.derivative = e - p.prevError,
              !.integral = IntegralStep(p, e),
              !.startSettledTime = SettleStep(p, e, t),
              !.prevError = e]

\* calculate(error) that restarts the run window with the settle window
PIDCalculateRestarts(p, e, t) ==
    [p EXCEPT !.error = e,
              !.derivative = p.prevError - e,
              !.integral = IntegralStep(p, e),
              !.startSettledTime = SettleStep(p, e, t),
              !.startTime = IF Abs(e) > p.settleZone THEN t ELSE @,
              !.prevError = e]

\* PID::calculate(error) called at time t: the object afterwards
PIDCalculate(p, e, t) ==
    [p EXCEPT !.error = e,
              !.derivative = p.prevError - e,
              !.integral = IntegralStep(p, e),
              !.startSettledTime = SettleStep(p, e, t),
              !.prevError = e]

\* the value calculate() returned, from the object it left
PIDOutput(p) ==
    (p.kp * p.error) + (p.kd * p.derivative) + (p.ki * p.integral) + p.ff

\* duration_cast<milliseconds>(t - from).count()
ElapsedMs(from, t) == (t - from) \div TicksPerMs

\* timePassed() measured from the settle window start
TimePassedOfSettleWindow(p, t) == ElapsedMs(p.startSettledTime, t)

\* PID::timePassed() at time t, in ms
TimePassed(p, t) == ElapsedMs(p.startTime, t)

\* PID::settledTimePassed() at time t, in ms
SettledTimePassed(p, t) == ElapsedMs(p.startSettledTime, t)

\* TimedOut with the comparison taken as >=
TimedOutAtTimeout(p, t) == TimePassed(p, t) >= p.timeout /\ p.timeout # 0

\* the first check of isCompleted()
TimedOut(p, t) == TimePassed(p, t) > p.timeout /\ p.timeout # 0

\* Settled without the special case of a settleTimeout of 0
SettledNoZeroCase(p, t) == SettledTimePassed(p, t) > p.settleTimeout

\* the second check of isCompleted()
Settled(p, t) == SettledTimePassed(p, t) > p.settleTimeout /\ p.settleTimeout # 0

\* PID::isCompleted() called at time t
IsCompleted(p, t) == TimedOut(p, t) \/ Settled(p, t)

----------------------------------------------------------------------------
(* A PID object and its user: the operations of PID.h called in any order *)

\* the state of the drive, which the PID specification leaves alone
Idle == [op |-> "idle"]

NoCall == [op |-> "none", val |-> 0]

TankInit ==
    /\ cmdX = 0 /\ cmdY = 0 /\ cmdRot = 0
    /\ leftCmd = 0 /\ rightCmd = 0

\* the tracker of a SmartDrive built without withHorizontalTracker()
NoTracker ==
    [rotation |-> FALSE, wheelSize |-> 0, gearRatio |-> 1, lastAngle |-> 0,
     offset |-> 0]

\* the odometry members of a SmartDrive after its construction, track() not
\* yet started, with wheels of wheelSize pixels across; pc is the place of the
\* tracking thread in track(), iters the iterations it has completed, sumLeft
\* and sumRight the shaft travel that the iterations have taken from each
\* side so far (history), locals what an iteration in progress holds
NewSmartDrive(wheelSize, gearRatio, tracker) ==
    [pos |-> [x |-> 0, y |-> 0], centerPos |-> [x |-> 0, y |-> 0],
     dir |-> 0, prevDir |-> 0,
     wheelSize |-> wheelSize, gearRatio |-> gearRatio,
     lastLeftPos |-> 0, lastRightPos |-> 0,
     tracker |-> tracker, pc |-> "idle", iters |-> 0,
     sumLeft |-> 0, sumRight |-> 0, locals |-> <<>>]

\* the devices when the constructor has called m_inert.calibrate()
NewSensors ==
    [calibrating |-> TRUE, heading |-> 0, left |-> 0, right |-> 0,
     rotation |-> 0]

TrackInit ==
    /\ odom = NewSmartDrive(3, 1, NoTracker)
    /\ sensors = NewSensors

\* a motion primitive or a TankDrive command that also stores the heading it
\* reads in m_dir
PoseWritten ==
    /\ odom' = [odom EXCEPT !.dir = @ + 90]
    /\ UNCHANGED sensors

\* what a motion primitive and a TankDrive command do to the odometry
PoseKept == UNCHANGED trackVars

\* art::PID pid; constructed when the clock reads 0..MaxStart
InitPID ==
    /\ now \in 0..MaxStart
    /\ pid = [n \in {"pid"} |-> NewPID(now)]
    /\ last = NoCall
    /\ lastReset = [n \in {"pid"} |-> -1]
    /\ lastUnsettled = [n \in {"pid"} |-> -1]
    /\ TankInit
    /\ TrackInit
    /\ call = Idle
    /\ done = Idle

\* time passes
Tick ==
    /\ now < MaxTimePID
    /\ now' = now + 1
    /\ last' = NoCall
    /\ UNCHANGED <<pid, lastReset, lastUnsettled, tankVars, driveVars>>
    /\ UNCHANGED trackVars

\* pid.reset()
Reset(n) ==
    /\ pid' = [pid EXCEPT ![n] = PIDReset(pid[n], now)]
    /\ last' = [op |-> "reset", val |-> 0]
    /\ lastReset' = [lastReset EXCEPT ![n] = now]
    /\ lastUnsettled' = [lastUnsettled EXCEPT ![n] = -1]
    /\ UNCHANGED <<now, tankVars, driveVars>>
    /\ UNCHANGED trackVars

\* pid.calculate(e)
Calculate(n, e) ==
    /\ Abs(IntegralStep(pid[n], e)) <= MaxIntegral
    /\ pid' = [pid EXCEPT ![n] = PIDCalculate(pid[n], e, now)]
    /\ last' = [op |-> "calculate", val |-> PIDOutput(pid'[n]),
                was |-> IsCompleted(pid[n], now)]
    /\ lastUnsettled' = [lastUnsettled EXCEPT ![n] =
                            IF Abs(e) > pid[n].settleZone THEN now ELSE @]
    /\ UNCHANGED <<now, lastReset, tankVars, driveVars>>
    /\ UNCHANGED trackVars

\* pid.isCompleted()
CallIsCompleted(n) ==
    /\ last' = [op |-> "isCompleted", val |-> IsCompleted(pid[n], now)]
    /\ UNCHANGED <<now, pid, lastReset, lastUnsettled, tankVars, driveVars>>
    /\ UNCHANGED trackVars

\* pid.setTimeout(T) / withTimeout(T), T in ms
SetTimeout(n, T) ==
    /\ pid' = [pid EXCEPT ![n].timeout = T]
    /\ last' = NoCall
    /\ UNCHANGED <<now, lastReset, lastUnsettled, tankVars, driveVars>>
    /\ UNCHANGED trackVars

\* pid.setSettleTimeout(S) / withSettleTimeout(S), S in ms
SetSettleTimeout(n, S) ==
    /\ pid' = [pid EXCEPT ![n].settleTimeout = S]
    /\ last' = NoCall
    /\ UNCHANGED <<now, lastReset, lastUnsettled, tankVars, driveVars>>
    /\ UNCHANGED trackVars

\* pid.setSettleZone(Z) / withSettleZone(Z)
SetSettleZone(n, Z) ==
    /\ pid' = [pid EXCEPT ![n].settleZone = Z]
    /\ last' = NoCall
    /\ UNCHANGED <<now, lastReset, lastUnsettled, tankVars, driveVars>>
    /\ UNCHANGED trackVars

\* pid.setIntegralZone(z) / withIntegralZone(z)
SetIntegralZone(n, z) ==
    /\ pid' = [pid EXCEPT ![n].integralZone = z]
    /\ last' = NoCall
    /\ UNCHANGED <<now, lastReset, lastUnsettled, tankVars, driveVars>>
    /\ UNCHANGED trackVars

\* the errors the user of the PID feeds it
ErrSet == {-MaxErr} \cup 0..MaxErr

NextPID ==
    \/ Tick
    \/ Reset("pid")
    \/ \E e \in ErrSet : Calculate("pid", e)
    \/ CallIsCompleted("pid")
    \/ \E T \in 0..MaxTimeoutMs : SetTimeout("pid", T)
    \/ \E S \in 0..MaxTimeoutMs : SetSettleTimeout("pid", S)
    \/ \E Z \in 0..MaxZone : SetSettleZone("pid", Z)

SpecPID == InitPID /\ [][NextPID]_vars

----------------------------------------------------------------------------
(* Units *)

\* Degrees(d): the Angle of d degrees
Degrees(d) == d

\* Angle::degrees()
AngleDegrees(a) == a

\* constrain() that also wraps an angle of exactly half a revolution
RECURSIVE ConstrainHalfOpen(_)
ConstrainHalfOpen(a) ==
    IF a > 180 THEN ConstrainHalfOpen(a - 360)
    ELSE IF a < 180 THEN (IF a < -180 THEN ConstrainHalfOpen(a + 360) ELSE a)
    ELSE ConstrainHalfOpen(a - 360)

\* Angle::constrain()
RECURSIVE Constrain(_)
Constrain(a) ==
    IF a > 180 THEN Constrain(a - 360)
    ELSE IF a < -180 THEN Constrain(a + 360)
    ELSE a

\* shortestTurnPath(target) without the constrain() of the angle
ShortestTurnPathOfRaw(target) ==
    LET angle == target
    IN  IF Abs(angle) < 180 THEN angle
        ELSE IF angle > 0 THEN 360 - angle
        ELSE 360 + angle

\* shortestTurnPath(target); |revolutions()| < .5 is |degrees| < 180
ShortestTurnPath(target) ==
    LET angle == Constrain(target)
    IN  IF Abs(angle) < 180 THEN angle
        ELSE IF angle > 0 THEN 360 - angle
        ELSE 360 + angle

\* A double of the unit conversions: the number (n / d) * pi^k, d > 0.  The
\* float constants of Units.cpp are taken as the numbers they round: 0.2f as
\* 1/5, .0254f as 127/5000, 39.3700787402f as 5000/127, 3.14159265f as pi.
Num(n, d, k) == [n |-> n, d |-> d, k |-> k]

Whole(x) == Num(x, 1, 0)

Pi == Num(1, 1, 1)

\* a * b
Times(a, b) == Num(a.n * b.n, a.d * b.d, a.k + b.k)

\* a / b, b # 0
Over(a, b) ==
    IF b.n < 0 THEN Num(-(a.n * b.d), a.d * (-b.n), a.k - b.k)
    ELSE Num(a.n * b.d, a.d * b.n, a.k - b.k)

\* a == b
SameNum(a, b) ==
    \/ a.n = 0 /\ b.n = 0
    \/ a.k = b.k /\ a.n * b.d = b.n * a.d

\* Pixels(x), Inches(x), Feet(x), Meters(x), Centimeters(x), Millimeters(x),
\* Tiles(x): the m_value of the Length
LengthOf(unit, x) ==
    LET inches == Times(x, Whole(5))
    IN  CASE unit = "pixels" -> x
          [] unit = "inches" -> inches
          [] unit = "feet" -> Times(Times(x, Whole(5)), Whole(12))
          [] unit = "meters" -> Times(inches, Num(5000, 127, 0))
          [] unit = "centimeters" -> Times(inches, Num(50, 127, 0))
          [] unit = "millimeters" -> Times(inches, Num(5, 127, 0))
          [] unit = "tiles" -> Times(inches, Whole(24))

\* Length::feet() that multiplies by 12
LengthInTimes(unit, m) ==
    LET inches == Times(m, Num(1, 5, 0))
    IN  CASE unit = "pixels" -> m
          [] unit = "inches" -> inches
          [] unit = "feet" -> Times(inches, Whole(12))
          [] unit = "meters" -> Times(inches, Num(127, 5000, 0))
          [] unit = "centimeters" -> Times(inches, Num(127, 50, 0))
          [] unit = "millimeters" -> Times(inches, Num(127, 5, 0))
          [] unit = "tiles" -> Times(inches, Whole(24))

\* Length::pixels(), inches(), feet(), meters(), centimeters(), millimeters(),
\* tiles() of a Length of m_value m
LengthIn(unit, m) ==
    LET inches == Times(m, Num(1, 5, 0))
    IN  CASE unit = "pixels" -> m
          [] unit = "inches" -> inches
          [] unit = "feet" -> Over(inches, Whole(12))
          [] unit = "meters" -> Times(inches, Num(127, 5000, 0))
          [] unit = "centimeters" -> Times(inches, Num(127, 50, 0))
          [] unit = "millimeters" -> Times(inches, Num(127, 5, 0))
          [] unit = "tiles" -> Over(inches, Whole(24))

\* Degrees(x), Radians(x), Revolutions(x): the m_value of the Angle
AngleOf(unit, x) ==
    CASE unit = "degrees" -> Over(Times(x, Pi), Whole(180))
      [] unit = "radians" -> x
      [] unit = "revolutions" -> Times(Times(x, Whole(2)), Pi)

\* Angle::degrees(), radians(), revolutions() of an Angle of m_value m
AngleIn(unit, m) ==
    CASE unit = "degrees" -> Over(Times(m, Whole(180)), Pi)
      [] unit = "radians" -> m
      [] unit = "revolutions" -> Over(m, Times(Pi, Whole(2)))

LengthUnits ==
    {"pixels", "inches", "feet", "meters", "centimeters", "millimeters",
     "tiles"}

AngleUnits == {"degrees", "radians", "revolutions"}

\* sin and cos of an angle of whole quarter turns, in degrees
Sin(a) ==
    LET q == (a \div 90) % 4
    IN  IF q = 1 THEN 1 ELSE IF q = 3 THEN -1 ELSE 0

Cos(a) ==
    LET q == (a \div 90) % 4
    IN  IF q = 0 THEN 1 ELSE IF q = 2 THEN -1 ELSE 0

\* Vec2::XandY(x, y)
XandY(x, y) == [x |-> x, y |-> y]

\* Vec2::dirAndMag(dir, mag), dir a whole number of quarter turns: a sine or
\* cosine that is 0 there is 0 or a rounding residue, which the sums of the
\* tracking loop leave out
DirAndMag(dir, mag) == XandY(mag * Sin(dir), mag * Cos(dir))

\* the signs the rounding residue of sin(dir) can have where the sine is 0:
\* sin(0) is 0; the double nearest to pi has a sine above 0 and Degrees(180),
\* of 3.14159265f, a sine below 0
SinResidues(dir) == IF dir = 0 \/ Sin(dir) # 0 THEN {0} ELSE {-1, 1}

\* atan2(x, y) in degrees for a vector along an axis, rx the sign of the
\* residue in an x that is 0: atan2(+-0, y < 0) is +-pi
Atan2(x, y, rx) ==
    IF x > 0 THEN 90
    ELSE IF x < 0 THEN -90
    ELSE IF y >= 0 THEN 0
    ELSE IF rx < 0 THEN -180
    ELSE 180

\* direction() that takes atan2(y, x), the angle from the x axis
DirectionFromX(v, rx) == Atan2(v.y, v.x, 0)

\* Vec2::direction() of the vector v, in degrees
Direction(v, rx) == Atan2(v.x, v.y, rx)

\* SmartDrive::getWheelTravel(): a Length is held in quarters of the wheel travel
WheelTravel == 4

\* Revolutions(target / getWheelTravel()), for a Length target
RevolutionsOfTravel(target) == (360 * target) \div WheelTravel

\* what the conversion of a NaN to int may leave in an int (std::abs(x)/x at
\* x = 0): the sign of the value is all the code reads
UndefinedInt == {-1, 0, 1}

\* the values of `int s = std::abs(x)/x`
SignValues(x) == IF x > 0 THEN {1} ELSE IF x < 0 THEN {-1} ELSE UndefinedInt

\* errorSign == std::abs(error)/error, an int against a double that is NaN at 0
SameSign(errorSign, error) ==
    IF error > 0 THEN errorSign = 1
    ELSE IF error < 0 THEN errorSign = -1
    ELSE FALSE

----------------------------------------------------------------------------
(* TankDrive *)

\* update() with each side's command capped to the range of a motor
UpdateCapped ==
    LET Cap(v) == IF v > 100 THEN 100 ELSE IF v < -100 THEN -100 ELSE v
    IN  /\ leftCmd' = Cap(cmdY' + cmdRot')
        /\ rightCmd' = Cap(cmdY' - cmdRot')

\* TankDrive::update(): SimpleMotorGroup::set stores the command it is given
Update ==
    /\ leftCmd' = cmdY' + cmdRot'
    /\ rightCmd' = cmdY' - cmdRot'

\* arcade(x, y, rot) that stores the commands and does not update() the motors
ArcadeXYRStoresOnly(x, y, rot) ==
    /\ cmdX' = x
    /\ cmdY' = y
    /\ cmdRot' = rot
    /\ UNCHANGED <<leftCmd, rightCmd>>

\* TankDrive::arcade(x, y, rot)
ArcadeXYR(x, y, rot) ==
    /\ cmdX' = x
    /\ cmdY' = y
    /\ cmdRot' = rot
    /\ Update

\* TankDrive::arcade(drive, rot)
Arcade(drive, rot) ==
    /\ cmdX' = cmdX
    /\ cmdY' = drive
    /\ cmdRot' = rot
    /\ Update

----------------------------------------------------------------------------
(* SmartDrive: the blocking motion primitives and their caller *)

\* the period of the polling loops, wait(20, vex::msec)
WaitMs == 20

\* the three dedicated PID objects
PIDNames == {"driveForPID", "turnForPID", "turnToPID"}

\* what the shaft encoders of the two sides read, in degrees
ShaftSet == {0, 90}
\* what the inertial sensor's rotation() reads, in degrees
RotationSet == {0, 90, 450}
\* what the inertial sensor's heading() reads, in degrees, in [0, 360)
HeadingSet == {83, 90, 97, 270}
\* the targets given to driveFor and driveForPID, in quarters of the wheel travel
DriveTargets == {-1, 1}
\* the targets given to turnFor and turnForPID
TurnTargets == {Degrees(-90), Degrees(450)}
\* the targets given to turnTo and turnToPID
HeadingTargets == {Degrees(90), Degrees(450)}
\* the speeds given to the open-loop primitives
SpeedSet == {50}

\* art::PID().withTimeout(0.045).withSettleZone(10).withSettleTimeout(0.025)
TunedPID(t) ==
    [NewPID(t) EXCEPT !.timeout = 45, !.settleZone = 10, !.settleTimeout = 25]

\* the PID objects given to withDriveForPID, withTurnForPID and withTurnToPID
PIDChoices(t) == {NewPID(t), TunedPID(t)}

\* (m_left.position(vex::degrees) + m_right.position(vex::degrees)) / 2.f
AvgShaft(l, r) == (l + r) \div 2

\* the locals of a primitive as it starts: sample is the last reading taken
\* (the error it gives, for turnTo and turnToPID), prev the error of the poll
\* before (turnTo), iters the passes of the loop made, stale whether the
\* primitive found its PID timed out since an earlier reset(), heading the
\* heading that gave the sample (turnTo)
NewCall(op, target, speed, goal, dir, sample) ==
    [op |-> op, target |-> target, speed |-> speed, goal |-> goal, dir |-> dir,
     sample |-> sample, prev |-> 0, errorSign |-> 0, iters |-> 0,
     startedAt |-> now, stale |-> FALSE, heading |-> 0]

\* the PID n was reset() before and has timed out since
Stale(n) == lastReset[n] >= 0 /\ TimedOut(pid[n], now)

\* SmartDrive(drive, inert), with withDriveForPID(p), withTurnForPID(p) and
\* withTurnToPID(p) chained to the constructor or not
InitDrive ==
    /\ now = 0
    /\ \E p \in PIDChoices(now) : pid = [n \in PIDNames |-> p]
    /\ last = NoCall
    /\ lastReset = [n \in PIDNames |-> -1]
    /\ lastUnsettled = [n \in PIDNames |-> -1]
    /\ TankInit
    /\ TrackInit
    /\ call = Idle
    /\ done = Idle

\* wait(20, vex::msec)
Wait ==
    \E j \in 0..MaxJitter :
        /\ now + WaitMs * TicksPerMs + j <= MaxTimeDrive
        /\ now' = now + WaitMs * TicksPerMs + j

\* the primitive returns to its caller
Return(c) ==
    /\ call' = Idle
    /\ done' = c

\* a primitive that does not reset() its PID
ResetOwnMissing(n) == UNCHANGED <<pid, lastReset, lastUnsettled>>

\* reset() of the primitive's own PID
ResetOwn(n) ==
    /\ pid' = [pid EXCEPT ![n] = PIDReset(pid[n], now)]
    /\ lastReset' = [lastReset EXCEPT ![n] = now]
    /\ lastUnsettled' = [lastUnsettled EXCEPT ![n] = -1]

\* out = calculate(e) on the primitive's own PID
CalculateOwn(n, e) ==
    /\ pid' = [pid EXCEPT ![n] = PIDCalculate(pid[n], e, now)]
    /\ lastUnsettled' = [lastUnsettled EXCEPT ![n] =
                            IF Abs(e) > pid[n].settleZone THEN now ELSE @]
    /\ UNCHANGED lastReset

\* driveFor(target, speed), to its loop
CallDriveFor(target, speed) ==
    /\ call.op = "idle"
    /\ done' = Idle
    /\ \E l, r \in ShaftSet, dir \in SignValues(target) :
          LET offset == Degrees(AvgShaft(l, r))
              targetRot == RevolutionsOfTravel(target) + offset
          IN  call' = NewCall("driveFor", target, speed, targetRot, dir, offset)
    /\ UNCHANGED <<now, pidVars, tankVars>>
    /\ PoseKept

\* the loop condition of driveFor without the direction of the target
DriveForGoesOnForward(c) == (c.goal - c.sample) > 0

\* the loop condition of driveFor with a deadline of two waits
DriveForGoesOnInTime(c) ==
    /\ (c.goal - c.sample) * c.dir > 0
    /\ ElapsedMs(c.startedAt, now) < 2 * WaitMs

\* the loop condition of driveFor
DriveForGoesOn(c) == (c.goal - c.sample) * c.dir > 0

\* one pass of the loop of driveFor
DriveForLoop ==
    /\ call.op = "driveFor"
    /\ DriveForGoesOn(call)
    /\ \E l, r \in ShaftSet :
          call' = [call EXCEPT !.sample = Degrees(AvgShaft(l, r)),
                               !.iters = @ + 1]
    /\ Arcade(call.speed, 0)
    /\ Wait
    /\ UNCHANGED <<pidVars, done>>
    /\ PoseKept

\* driveFor that stops as it returns, as the PID primitives do
DriveForReturnStops ==
    /\ call.op = "driveFor"
    /\ ~DriveForGoesOn(call)
    /\ ArcadeXYR(0, 0, 0)
    /\ Return(call)
    /\ UNCHANGED <<now, pidVars>>
    /\ PoseKept

\* driveFor leaves its loop and returns
DriveForReturn ==
    /\ call.op = "driveFor"
    /\ ~DriveForGoesOn(call)
    /\ Return(call)
    /\ UNCHANGED <<now, pidVars, tankVars>>
    /\ PoseKept

\* driveForPID(target), to its loop
CallDriveForPID(target) ==
    /\ call.op = "idle"
    /\ done' = Idle
    /\ \E l, r \in ShaftSet :
          LET offset == Degrees(AvgShaft(l, r))
              targetRot == RevolutionsOfTravel(target) + offset
          IN  call' = [NewCall("driveForPID", target, 0, targetRot, 0, offset)
                         EXCEPT !.stale = Stale("driveForPID")]
    /\ ResetOwn("driveForPID")
    /\ UNCHANGED <<now, last, tankVars>>
    /\ PoseKept

\* one pass of the loop of driveForPID
DriveForPIDLoop ==
    /\ call.op = "driveForPID"
    /\ ~IsCompleted(pid["driveForPID"], now)
    /\ \E l, r \in ShaftSet :
          LET pos == Degrees(AvgShaft(l, r))
          IN  /\ call' = [call EXCEPT !.sample = pos, !.iters = @ + 1]
              /\ CalculateOwn("driveForPID", call.goal - pos)
    /\ Arcade(PIDOutput(pid'["driveForPID"]), 0)
    /\ Wait
    /\ UNCHANGED <<last, done>>
    /\ PoseKept

\* driveForPID leaves its loop, stops and returns
DriveForPIDReturn ==
    /\ call.op = "driveForPID"
    /\ IsCompleted(pid["driveForPID"], now)
    /\ ArcadeXYR(0, 0, 0)
    /\ Return(call)
    /\ UNCHANGED <<now, pidVars>>
    /\ PoseKept

\* turnFor(target, speed), to its loop
CallTurnFor(target, speed) ==
    /\ call.op = "idle"
    /\ done' = Idle
    /\ \E rot \in RotationSet, dir \in SignValues(target) :
          LET targetAngle == Degrees(AngleDegrees(target) + rot)
          IN  call' = NewCall("turnFor", target, speed, targetAngle, dir, rot)
    /\ UNCHANGED <<now, pidVars, tankVars>>
    /\ PoseKept

\* the loop condition of turnFor with the remaining angle wrapped to a circle
TurnForGoesOnWrapped(c, rot) ==
    ShortestTurnPath(Degrees(AngleDegrees(c.goal) - rot)) * c.dir > 0

\* the loop condition of turnFor, with the rotation it reads
TurnForGoesOn(c, rot) == Degrees(AngleDegrees(c.goal) - rot) * c.dir > 0

\* one pass of the loop of turnFor
TurnForLoop ==
    /\ call.op = "turnFor"
    /\ \E rot \in RotationSet :
          /\ TurnForGoesOn(call, rot)
          /\ call' = [call EXCEPT !.sample = rot, !.iters = @ + 1]
    /\ Arcade(0, call.speed)
    /\ Wait
    /\ UNCHANGED <<pidVars, done>>
    /\ PoseKept

\* turnFor leaves its loop, stops and returns
TurnForReturn ==
    /\ call.op = "turnFor"
    /\ \E rot \in RotationSet :
          /\ ~TurnForGoesOn(call, rot)
          /\ Return([call EXCEPT !.sample = rot])
    /\ ArcadeXYR(0, 0, 0)
    /\ UNCHANGED <<now, pidVars>>
    /\ PoseKept

\* turnForPID(target), to its loop
CallTurnForPID(target) ==
    /\ call.op = "idle"
    /\ done' = Idle
    /\ \E rot \in RotationSet :
          LET targetAngle == Degrees(rot + AngleDegrees(target))
          IN  call' = [NewCall("turnForPID", target, 0, targetAngle, 0, rot)
                         EXCEPT !.stale = Stale("turnForPID")]
    /\ ResetOwn("turnForPID")
    /\ UNCHANGED <<now, last, tankVars>>
    /\ PoseKept

\* one pass of the loop of turnForPID
TurnForPIDLoop ==
    /\ call.op = "turnForPID"
    /\ ~IsCompleted(pid["turnForPID"], now)
    /\ \E rot \in RotationSet :
          LET error == Degrees(AngleDegrees(call.goal) - rot)
          IN  /\ call' = [call EXCEPT !.sample = rot, !.iters = @ + 1]
              /\ CalculateOwn("turnForPID", error)
    /\ Arcade(0, PIDOutput(pid'["turnForPID"]))
    /\ Wait
    /\ UNCHANGED <<last, done>>
    /\ PoseKept

\* turnForPID leaves its loop, stops and returns
TurnForPIDReturn ==
    /\ call.op = "turnForPID"
    /\ IsCompleted(pid["turnForPID"], now)
    /\ ArcadeXYR(0, 0, 0)
    /\ Return(call)
    /\ UNCHANGED <<now, pidVars>>
    /\ PoseKept

\* the error of turnTo and turnToPID, with the heading they read
HeadingError(target, heading) ==
    ShortestTurnPath(Degrees(AngleDegrees(target) - heading))

\* turnTo(target, speed), to its loop
CallTurnTo(target, speed) ==
    /\ call.op = "idle"
    /\ done' = Idle
    /\ \E h \in HeadingSet :
          LET error == HeadingError(target, h)
          IN  \E sign \in SignValues(error) :
                 call' = [NewCall("turnTo", target, speed, target, 0, error)
                             EXCEPT !.errorSign = sign, !.heading = h]
    /\ UNCHANGED <<now, pidVars, tankVars>>
    /\ PoseKept

\* a loop condition of turnTo that holds only while the error is not under
\* 10 degrees
TurnToGoesOnWhileFar(c) == ~(Abs(AngleDegrees(c.sample)) < 10)

\* the loop condition of turnTo
TurnToGoesOn(c) ==
    ~(Abs(AngleDegrees(c.sample)) < 10) \/ SameSign(c.errorSign, c.sample)

\* one pass of the loop of turnTo that reaches the wait
TurnToLoop ==
    /\ call.op = "turnTo"
    /\ TurnToGoesOn(call)
    /\ \E h \in HeadingSet :
          LET error == HeadingError(call.target, h)
          IN  /\ ~(Abs(AngleDegrees(error)) < 5)
              /\ \E sign \in SignValues(error) :
                    call' = [call EXCEPT !.sample = error, !.prev = call.sample,
                                         !.errorSign = sign, !.iters = @ + 1,
                                         !.heading = h]
    /\ Arcade(0, call.speed)
    /\ Wait
    /\ UNCHANGED <<pidVars, done>>
    /\ PoseKept

\* one pass of the loop of turnTo that finds the error under 5 degrees, stops
\* and returns
TurnToClose ==
    /\ call.op = "turnTo"
    /\ TurnToGoesOn(call)
    /\ \E h \in HeadingSet :
          LET error == HeadingError(call.target, h)
          IN  /\ Abs(AngleDegrees(error)) < 5
              /\ Return([call EXCEPT !.sample = error, !.prev = call.sample,
                                     !.iters = @ + 1, !.heading = h])
    /\ ArcadeXYR(0, 0, 0)
    /\ UNCHANGED <<now, pidVars>>
    /\ PoseKept

\* turnTo leaves its loop by the loop condition, stops and returns
TurnToReturn ==
    /\ call.op = "turnTo"
    /\ ~TurnToGoesOn(call)
    /\ ArcadeXYR(0, 0, 0)
    /\ Return(call)
    /\ UNCHANGED <<now, pidVars>>
    /\ PoseKept

\* turnToPID(target), to its loop
CallTurnToPID(target) ==
    /\ call.op = "idle"
    /\ done' = Idle
    /\ call' = [NewCall("turnToPID", target, 0, target, 0, 0)
                EXCEPT !.stale = Stale("turnToPID")]
    /\ ResetOwn("turnToPID")
    /\ UNCHANGED <<now, last, tankVars>>
    /\ PoseKept

\* one pass of the loop of turnToPID
TurnToPIDLoop ==
    /\ call.op = "turnToPID"
    /\ ~IsCompleted(pid["turnToPID"], now)
    /\ \E h \in HeadingSet :
          LET error == HeadingError(call.target, h)
          IN  /\ call' = [call EXCEPT !.sample = error, !.iters = @ + 1]
              /\ CalculateOwn("turnToPID", error)
    /\ Arcade(0, PIDOutput(pid'["turnToPID"]))
    /\ Wait
    /\ UNCHANGED <<last, done>>
    /\ PoseKept

\* turnToPID leaves its loop, stops and returns
TurnToPIDReturn ==
    /\ call.op = "turnToPID"
    /\ IsCompleted(pid["turnToPID"], now)
    /\ ArcadeXYR(0, 0, 0)
    /\ Return(call)
    /\ UNCHANGED <<now, pidVars>>
    /\ PoseKept

NextDrive ==
    \/ \E t \in DriveTargets, s \in SpeedSet : CallDriveFor(t, s)
    \/ DriveForLoop
    \/ DriveForReturn
    \/ \E t \in DriveTargets : CallDriveForPID(t)
    \/ DriveForPIDLoop
    \/ DriveForPIDReturn
    \/ \E t \in TurnTargets, s \in SpeedSet : CallTurnFor(t, s)
    \/ TurnForLoop
    \/ TurnForReturn
    \/ \E t \in TurnTargets : CallTurnForPID(t)
    \/ TurnForPIDLoop
    \/ TurnForPIDReturn
    \/ \E t \in HeadingTargets, s \in SpeedSet : CallTurnTo(t, s)
    \/ TurnToLoop
    \/ TurnToClose
    \/ TurnToReturn
    \/ \E t \in HeadingTargets : CallTurnToPID(t)
    \/ TurnToPIDLoop
    \/ TurnToPIDReturn

SpecDrive == InitDrive /\ [][NextDrive]_vars

----------------------------------------------------------------------------
(* Completion of a PID (SpecPID) *)

Max(a, b) == IF a > b THEN a ELSE b

\* the PID of SpecPID has been reset() and isCompleted() has just returned
JustChecked == last.op = "isCompleted" /\ lastReset["pid"] >= 0

C2_Config(p, r) == p.timeout = 0 /\ p.settleTimeout > 0 /\ r >= 0

C3_ZeroDisables ==
    LET p == pid["pid"]
    IN  (p.timeout = 0 /\ p.settleTimeout = 0) =>
            /\ ~IsCompleted(p, now)
            /\ (last.op = "isCompleted" => last.val = FALSE)

\* C3 witness: isCompleted() has returned false with both timeouts 0, more than
\* a millisecond after the reset() and after the last error outside the zone.
C3_Witness ==
    /\ JustChecked /\ last.val = FALSE
    /\ pid["pid"].timeout = 0 /\ pid["pid"].settleTimeout = 0
    /\ TimePassed(pid["pid"], now) > 1
    /\ SettledTimePassed(pid["pid"], now) > 1
    /\ lastUnsettled["pid"] >= 0

\* the step is a calculate(e) with |e| > settleZone on a PID that isCompleted()
\* would have found complete
UnsettlesComplete ==
    /\ now' = now
    /\ last'.op = "calculate"
    /\ IsCompleted(pid["pid"], now)
    /\ Abs(pid'["pid"].error) > pid["pid"].settleZone

----------------------------------------------------------------------------
(* The motion primitives (SpecDrive) *)

\* the sign of a non-zero number
Sgn(x) == IF x > 0 THEN 1 ELSE IF x < 0 THEN -1 ELSE 0

\* a PID primitive is in its loop, at a loop check
InPIDLoop == call.op \in PIDNames

\* the step is the return of the primitive in progress
Returns == call.op # "idle" /\ call'.op = "idle"

\* the step is a pass of the loop of the primitive in progress
Passes == call.op # "idle" /\ call'.op = call.op

\* the step starts the primitive op
Starts(op) == call.op = "idle" /\ call'.op = op

Stopped == cmdX = 0 /\ cmdY = 0 /\ cmdRot = 0 /\ leftCmd = 0 /\ rightCmd = 0

C5_StopsOnReturn ==
    [][ InPIDLoop =>
          IF call'.op = "idle"
          THEN /\ IsCompleted(pid[call.op], now)
               /\ Stopped'
          ELSE /\ Passes
               /\ ~IsCompleted(pid[call.op], now)
      ]_vars

\* C5 witness: a PID primitive has returned with both sides at 0, its last
\* pass having commanded a non-zero output.
C5_Witness ==
    /\ call.op = "idle" /\ done.op \in PIDNames
    /\ done.iters >= 1
    /\ PIDOutput(pid[done.op]) # 0
    /\ Stopped

\* C6: a PID primitive resets its own PID as it starts (both windows start at
\* the call, error, prevError, derivative and integral are 0), no step of it
\* changes the other two PID objects, and it never returns at its first loop
\* check: a return by the timeout comes more than the timeout after the call.
C6_OwnPIDReset ==
    [][ /\ \A n \in PIDNames :
              Starts(n) =>
                 /\ pid'[n].startTime = now'
                 /\ pid'[n].startSettledTime = now'
                 /\ pid'[n].error = 0 /\ pid'[n].prevError = 0
                 /\ pid'[n].derivative = 0 /\ pid'[n].integral = 0
        /\ \A n \in PIDNames :
              (call.op = n \/ call'.op = n) =>
                 \A m \in PIDNames \ {n} : pid'[m] = pid[m]
        /\ (InPIDLoop /\ Returns) =>
                 /\ call.iters >= 1
                 /\ TimedOut(pid[call.op], now) =>
                       ElapsedMs(call.startedAt, now) > pid[call.op].timeout
      ]_vars

\* C6 witness: a primitive called again after its PID had timed out is past
\* its first loop check and in its loop.
C6_Witness ==
    /\ InPIDLoop
    /\ call.stale
    /\ call.iters >= 1

\* the remaining rotation of driveFor, signed by its target
DriveForRemaining(c) == (c.goal - c.sample) * Sgn(c.target)

\* C7: driveFor(target, speed), target # 0, fixes its goal at the average shaft
\* position at the call plus target/wheelTravel revolutions; each pass of its
\* loop is made with (goal - last sample) * sign(target) > 0, keeps the goal
\* and commands arcade(speed, 0); it returns only with that product <= 0.
C7_DriveForLoop ==
    [][ /\ Starts("driveFor") =>
              call'.goal * WheelTravel
                 = call'.sample * WheelTravel + 360 * call'.target
        /\ (call.op = "driveFor" /\ Passes) =>
              /\ DriveForRemaining(call) > 0
              /\ call'.goal = call.goal
              /\ cmdY' = call.speed /\ cmdRot' = 0
              /\ leftCmd' = call.speed /\ rightCmd' = call.speed
        /\ (call.op = "driveFor" /\ Returns) =>
              /\ DriveForRemaining(call) <= 0
              /\ done'.sample = call.sample
      ]_vars

\* C7 witness: a driveFor backwards has returned after two passes of its loop.
C7_Witness ==
    /\ call.op = "idle" /\ done.op = "driveFor"
    /\ done.target < 0
    /\ done.iters >= 2
    /\ DriveForRemaining(done) <= 0

\* C8: when driveFor has returned after at least one pass of its loop, the
\* stored drive command is its speed and both sides are commanded its speed:
\* it has not commanded zero.
C8_DriveForNoStop ==
    (call.op = "idle" /\ done.op = "driveFor" /\ done.iters >= 1) =>
        /\ cmdY = done.speed /\ cmdRot = 0
        /\ leftCmd = done.speed /\ rightCmd = done.speed

\* C8 witness: driveFor has returned after a pass of its loop, at a non-zero
\* speed.
C8_Witness ==
    /\ call.op = "idle" /\ done.op = "driveFor"
    /\ done.iters >= 1
    /\ done.speed # 0

\* the remaining angle of turnFor with the rotation read, signed by its target
TurnForRemaining(c, rot) == (c.goal - rot) * Sgn(c.target)

\* C9: turnFor(target, speed), target # 0, fixes its goal at the rotation read
\* at the call plus the target, not wrapped; each pass of its loop reads a
\* rotation with (goal - rotation) * sign(target) > 0 and commands
\* arcade(0, speed); at the first poll that reads a rotation with that product
\* <= 0 it commands zero and returns.
C9_TurnForLoop ==
    [][ /\ Starts("turnFor") =>
              call'.goal = call'.sample + call'.target
        /\ (call.op = "turnFor" /\ Passes) =>
              /\ TurnForRemaining(call, call'.sample) > 0
              /\ call'.goal = call.goal
              /\ cmdY' = 0 /\ cmdRot' = call.speed
              /\ leftCmd' = call.speed /\ rightCmd' = -call.speed
        /\ (call.op = "turnFor" /\ Returns) =>
              /\ TurnForRemaining(call, done'.sample) <= 0
              /\ Stopped'
      ]_vars

\* C9 witness: a turnFor of more than a revolution is still in its loop after
\* reading a rotation that is a whole revolution short of its goal.
C9_Witness ==
    /\ call.op = "turnFor"
    /\ call.target > 360
    /\ call.iters >= 1
    /\ call.sample = call.goal - 360

\* turnTo is at a loop check after a poll whose error, of 5 to 10 degrees, has
\* the opposite sign from the error of the poll before
SignChanged ==
    /\ call.op = "turnTo"
    /\ call.iters >= 1
    /\ Sgn(call.sample) # 0
    /\ Sgn(call.sample) = -Sgn(call.prev)
    /\ Abs(call.sample) < 10
    /\ ~(Abs(call.sample) < 5)

\* C10: after a poll of turnTo whose error has the opposite sign from the error
\* of the poll before, with a magnitude under 10 and not under 5 degrees,
\* turnTo commands zero and returns without another pass of its loop.
C10_SignChangeStops ==
    [][ SignChanged =>
          /\ Returns
          /\ done'.iters = call.iters
          /\ Stopped'
      ]_vars

\* the whole revolutions added to or taken from a target of turnTo
MaxRev == 2

\* the locals of a turnTo, in its loop or returned
TurnToLocals == IF call.op = "turnTo" THEN call ELSE done

\* the errors of the locals c of a turnTo are those of its target plus or minus
\* whole revolutions, for the heading read
WrapsTarget(c) ==
    \A k \in (-MaxRev)..MaxRev :
        c.sample = HeadingError(c.target + Degrees(360 * k), c.heading)

\* C11: turnTo(t + k revolutions) does what turnTo(t) does with the same
\* readings: the error turnTo takes from every heading it reads is the error
\* that its target plus or minus whole revolutions gives for that heading, and
\* whether it passes or returns, and what it commands, follows from its errors
\* and speed alone.
C11_TurnToWraps ==
    [][ /\ (TurnToLocals.op = "turnTo" => WrapsTarget(TurnToLocals))'
        /\ (call.op = "turnTo" /\ Passes) =>
              /\ TurnToGoesOn(call)
              /\ ~(Abs(call'.sample) < 5)
              /\ cmdY' = 0 /\ cmdRot' = call.speed
              /\ leftCmd' = call.speed /\ rightCmd' = -call.speed
        /\ (call.op = "turnTo" /\ Returns) =>
              /\ Stopped'
              /\ IF done'.iters = call.iters
                 THEN ~TurnToGoesOn(call)
                 ELSE TurnToGoesOn(call) /\ Abs(done'.sample) < 5
      ]_vars

\* C11 witness: a turnTo with a target of more than a revolution is in its
\* loop with an error of half a revolution.
C11_Witness ==
    /\ call.op = "turnTo"
    /\ call.target > 360
    /\ call.iters >= 1
    /\ call.sample = 180

\* the clock leaves room for another wait of a polling loop
RoomToWait == now + WaitMs * TicksPerMs <= MaxTimeDrive

\* the error of turnTo keeps it in its loop whatever errorSign holds
TurnToFar(c) == ~(Abs(c.sample) < 10)

\* C12: driveFor, turnFor and turnTo have no timeout: at every loop check of
\* one of them, however long after the call, at which the last reading does
\* not satisfy the exit condition, the primitive can make another pass that
\* commands its speed again and takes a reading that again does not satisfy
\* the exit condition; so with such readings it never returns.
C12_OpenLoopNoTimeout ==
    RoomToWait =>
        /\ (call.op = "driveFor" /\ DriveForRemaining(call) > 0) =>
              /\ ENABLED (/\ DriveForLoop
                          /\ DriveForRemaining(call') > 0
                          /\ leftCmd' = call.speed /\ rightCmd' = call.speed)
              /\ ~ ENABLED DriveForReturn
        /\ (call.op = "turnFor" /\ TurnForRemaining(call, call.sample) > 0) =>
              ENABLED (/\ TurnForLoop
                       /\ TurnForRemaining(call', call'.sample) > 0
                       /\ leftCmd' = call.speed /\ rightCmd' = -call.speed)
        /\ (call.op = "turnTo" /\ TurnToFar(call)) =>
              /\ ENABLED (/\ TurnToLoop
                          /\ TurnToFar(call')
                          /\ leftCmd' = call.speed /\ rightCmd' = -call.speed)
              /\ ~ ENABLED TurnToReturn

\* the passes a polling loop can make in the time the model covers
MaxPasses == MaxTimeDrive \div (WaitMs * TicksPerMs)

\* C12 witness: a driveFor whose speed does not bring the shaft position to
\* its goal is still in its loop, commanding its speed, after as many passes
\* as the time covered allows.
C12_Witness ==
    /\ call.op = "driveFor"
    /\ call.iters = MaxPasses
    /\ DriveForRemaining(call) > 0
    /\ leftCmd = call.speed /\ rightCmd = call.speed

----------------------------------------------------------------------------
(* The arithmetic of a PID (SpecCalc): a PID with its gains and its integral
   zone set, reset and fed errors *)

\* the clock when the user of the PID stops
MaxTimeCalc == 2

\* the largest integral zone set
MaxIZone == 2

\* the errors fed: inside the zone, at it and at 0
CalcErrSet == {-MaxErr, 0, 1, MaxErr}

\* PID() alone, or PID().withTimeout(T).withSettleZone(Z).withSettleTimeout(S)
CalcChoices(t) ==
    {NewPID(t),
     [NewPID(t) EXCEPT !.timeout = 1, !.settleZone = 1, !.settleTimeout = 1]}

\* art::PID pid; or art::PID pid = art::PID().with...
InitCalc ==
    /\ now = 0
    /\ \E p \in CalcChoices(now) :
          /\ pid = [n \in {"pid"} |-> p]
          /\ last = [op |-> "new", val |-> 0, chained |-> p # NewPID(now)]
    /\ lastReset = [n \in {"pid"} |-> -1]
    /\ lastUnsettled = [n \in {"pid"} |-> -1]
    /\ TankInit
    /\ TrackInit
    /\ call = Idle
    /\ done = Idle

\* time passes between two calls
Elapse ==
    /\ now < MaxTimeCalc
    /\ now' = now + 1
    /\ UNCHANGED <<pidVars, tankVars, driveVars>>
    /\ UNCHANGED trackVars

\* PID::setConstants(kp, ki, kd) / withConstants(kp, ki, kd)
SetConstants(n, kp, ki, kd) ==
    /\ pid' = [pid EXCEPT ![n].kp = kp, ![n].ki = ki, ![n].kd = kd]
    /\ last' = NoCall
    /\ UNCHANGED <<now, lastReset, lastUnsettled, tankVars, driveVars>>
    /\ UNCHANGED trackVars

\* PID::setConstants(kp, ki, kd, ff) / withConstants(kp, ki, kd, ff)
SetConstantsFF(n, kp, ki, kd, ff) ==
    /\ pid' = [pid EXCEPT ![n].kp = kp, ![n].ki = ki, ![n].kd = kd,
                          ![n].ff = ff]
    /\ last' = NoCall
    /\ UNCHANGED <<now, lastReset, lastUnsettled, tankVars, driveVars>>
    /\ UNCHANGED trackVars

\* the longest row of calls of calculate(e) that is counted
MaxStreak == 3

\* the calls of calculate(e) made in a row since reset(), this one included,
\* all with the error e; 0 if another call came between or the row is longer
\* than MaxStreak
Streak(e) ==
    IF last.op = "reset" THEN 1
    ELSE IF /\ last.op = "calculate" /\ last.e = e
            /\ last.n >= 1 /\ last.n < MaxStreak
         THEN last.n + 1
    ELSE 0

\* what calculate(e) leaves: the object, the time of the last error out of the
\* settle zone
CalculateEffect(n, e) ==
    /\ Abs(IntegralStep(pid[n], e)) <= MaxIntegral
    /\ pid' = [pid EXCEPT ![n] = PIDCalculate(pid[n], e, now)]
    /\ lastUnsettled' = [lastUnsettled EXCEPT ![n] =
                            IF Abs(e) > pid[n].settleZone THEN now ELSE @]
    /\ UNCHANGED <<now, lastReset, tankVars, driveVars>>
    /\ UNCHANGED trackVars

\* pid.calculate(e), with what it was given and returned
CalcCalculate(n, e) ==
    /\ CalculateEffect(n, e)
    /\ last' = [op |-> "calculate", val |-> PIDOutput(pid'[n]), e |-> e,
                n |-> Streak(e),
                first |-> (last.op = "new" /\ ~last.chained)]

\* pid.calculate(target, feedback)
CalcCalculateFeedback(n, target, feedback) ==
    /\ CalculateEffect(n, target - feedback)
    /\ last' = [op |-> "calculateFeedback", val |-> PIDOutput(pid'[n]),
                target |-> target, feedback |-> feedback]

NextCalc ==
    \/ Elapse
    \/ Reset("pid")
    \/ \E e \in CalcErrSet : CalcCalculate("pid", e)
    \/ \E t \in {0, 1}, f \in {-1, 1} : CalcCalculateFeedback("pid", t, f)
    \/ \E z \in {0, MaxIZone} : SetIntegralZone("pid", z)
    \/ SetConstants("pid", 1, 1, 1)
    \/ SetConstantsFF("pid", 2, 3, 5, 7)

SpecCalc == InitCalc /\ [][NextCalc]_vars

----------------------------------------------------------------------------
(* A TankDrive and its user (SpecTank) *)

\* the largest command the user gives: commands may exceed 100
MaxCmd == 150

\* a command within the range of a motor
MidCmd == 60

\* the commands the user gives
CmdSet == {-MaxCmd, -MidCmd, 0, MidCmd, MaxCmd}

\* the positions of a joystick axis, vex::controller::axis::position()
AxisSet == {-100, 0, 100}

\* tank(left, right) that halves the sum and the difference
TankHalved(left, right) ==
    /\ cmdX' = cmdX
    /\ cmdY' = (left + right) \div 2
    /\ cmdRot' = (left - right) \div 2
    /\ Update

\* TankDrive::tank(left, right)
Tank(left, right) ==
    /\ cmdX' = cmdX
    /\ cmdY' = left + right
    /\ cmdRot' = left - right
    /\ Update

\* TankDrive(left, right)
InitTank ==
    /\ now = 0
    /\ pid = <<>>
    /\ last = NoCall
    /\ lastReset = <<>>
    /\ lastUnsettled = <<>>
    /\ TankInit
    /\ TrackInit
    /\ call = Idle
    /\ done = Idle

\* drive.arcade(x, y, rot)
UserArcadeXYR(x, y, rot) ==
    /\ ArcadeXYR(x, y, rot)
    /\ last' = [op |-> "arcadeXYR", x |-> x, y |-> y, rot |-> rot]
    /\ UNCHANGED <<now, pid, lastReset, lastUnsettled, driveVars>>
    /\ PoseKept

\* drive.arcade(drive, rot)
UserArcade(drive, rot) ==
    /\ Arcade(drive, rot)
    /\ last' = [op |-> "arcade", y |-> drive, rot |-> rot]
    /\ UNCHANGED <<now, pid, lastReset, lastUnsettled, driveVars>>
    /\ PoseKept

\* drive.tank(left, right)
UserTank(left, right) ==
    /\ Tank(left, right)
    /\ last' = [op |-> "tank", left |-> left, right |-> right]
    /\ UNCHANGED <<now, pid, lastReset, lastUnsettled, driveVars>>
    /\ PoseKept

\* drive.LeftSplitArcade(cont): arcade(Axis3, Axis1), then update() again
UserLeftSplitArcade(axis3, axis1) ==
    /\ Arcade(axis3, axis1)
    /\ last' = [op |-> "LeftSplitArcade", y |-> axis3, rot |-> axis1]
    /\ UNCHANGED <<now, pid, lastReset, lastUnsettled, driveVars>>
    /\ PoseKept

\* the cube of a joystick position scaled by 0.01 * 0.01
Curved(a) == (a * a * a) \div 10000

\* drive.LeftSplitArcadeCurved(cont)
UserLeftSplitArcadeCurved(axis3, axis1) ==
    /\ Arcade(Curved(axis3), Curved(axis1))
    /\ last' = [op |-> "LeftSplitArcadeCurved",
                y |-> Curved(axis3), rot |-> Curved(axis1)]
    /\ UNCHANGED <<now, pid, lastReset, lastUnsettled, driveVars>>
    /\ PoseKept

\* drive.update()
UserUpdate ==
    /\ UNCHANGED <<cmdX, cmdY, cmdRot>>
    /\ Update
    /\ last' = [op |-> "update"]
    /\ UNCHANGED <<now, pid, lastReset, lastUnsettled, driveVars>>
    /\ PoseKept

NextTank ==
    \/ \E x \in {0, MidCmd}, y \in CmdSet, rot \in CmdSet : UserArcadeXYR(x, y, rot)
    \/ \E y \in CmdSet, rot \in CmdSet : UserArcade(y, rot)
    \/ \E l \in CmdSet, r \in CmdSet : UserTank(l, r)
    \/ \E a3 \in AxisSet, a1 \in AxisSet : UserLeftSplitArcade(a3, a1)
    \/ \E a3 \in AxisSet, a1 \in AxisSet : UserLeftSplitArcadeCurved(a3, a1)
    \/ UserUpdate

SpecTank == InitTank /\ [][NextTank]_vars

----------------------------------------------------------------------------
(* The commands of a TankDrive (SpecTank) *)

\* C13: after arcade(drive, rot) and after arcade(x, y, rot) the stored drive
\* and rotation commands are the ones given, the left side is commanded
\* drive + rot and the right side drive - rot, whatever their size and
\* whatever x is; arcade(x, y, rot) also stores x.
C13_ArcadeCommits ==
    /\ last.op \in {"arcade", "arcadeXYR"} =>
          /\ cmdY = last.y /\ cmdRot = last.rot
          /\ leftCmd = last.y + last.rot
          /\ rightCmd = last.y - last.rot
    /\ last.op = "arcadeXYR" => cmdX = last.x

\* C13 witness: arcade(drive, rot) has commanded both sides beyond 100.
C13_Witness ==
    /\ last.op = "arcade"
    /\ leftCmd > 100
    /\ rightCmd < -100

\* the step is a call of tank(left, right)
TankCalled == last'.op = "tank"

\* C14: a call of tank(left, right) changes the stored commands and the
\* commands of the two sides exactly as arcade(left + right, left - right)
\* does.
C14_TankIsArcade ==
    [][ TankCalled =>
           Arcade(last'.left + last'.right, last'.left - last'.right) ]_vars

\* C14 witness: tank(left, right) with different non-zero inputs has stored
\* their sum and their difference.
C14_Witness ==
    /\ last.op = "tank"
    /\ last.left # last.right
    /\ last.left # 0 /\ last.right # 0
    /\ cmdY = last.left + last.right
    /\ cmdRot = last.left - last.right

\* C15: after tank(left, right) the left side is commanded left and the right
\* side is commanded right.
C15_TankPerSide ==
    last.op = "tank" => (leftCmd = last.left /\ rightCmd = last.right)

----------------------------------------------------------------------------
(* The arithmetic of a PID (SpecCalc) *)

\* the step is a call of calculate(e)
CalculateCalled == now' = now /\ last'.op = "calculate"

C17_ZeroZoneAccumulates ==
    [][ (CalculateCalled /\ pid["pid"].integralZone = 0) =>
           pid'["pid"].integral = pid["pid"].integral + last'.e
      ]_vars

\* what calculate(e) returns by the formula, from the object p before the call
\* and the integral after the call
OutputFormula(p, e, integral) ==
    p.kp * e + p.kd * (p.prevError - e) + p.ki * integral + p.ff

\* C18: calculate(e) returns kp*e + kd*derivative + ki*integral + ff with
\* derivative = prevError - e, prevError being the error of the call before or
\* 0 right after reset(), and integral the value after the call; it leaves
\* prevError = e; and calculate(target, feedback) returns and leaves what
\* calculate(target - feedback) does.
C18_Output ==
    [][ /\ CalculateCalled =>
              /\ last'.val = OutputFormula(pid["pid"], last'.e,
                                           pid'["pid"].integral)
              /\ pid'["pid"].derivative = pid["pid"].prevError - last'.e
              /\ pid'["pid"].prevError = last'.e
              /\ last.op = "reset" => pid'["pid"].derivative = 0 - last'.e
              /\ last.op = "calculate" =>
                    pid'["pid"].derivative = last.e - last'.e
        /\ (now' = now /\ last'.op = "calculateFeedback") =>
              LET e == last'.target - last'.feedback
              IN  /\ pid'["pid"] = PIDCalculate(pid["pid"], e, now)
                  /\ last'.val = OutputFormula(pid["pid"], e,
                                               pid'["pid"].integral)
      ]_vars

\* C18 witness: a calculate(e) with every gain set has returned a value made
\* of a non-zero derivative and a non-zero integral.
C18_Witness ==
    /\ last.op = "calculate"
    /\ pid["pid"].kd # 0 /\ pid["pid"].ki # 0 /\ pid["pid"].ff # 0
    /\ pid["pid"].derivative # 0
    /\ pid["pid"].integral # 0
    /\ last.val # pid["pid"].kp * last.e

\* the members reset() is not to change
Settings ==
    {"kp", "ki", "kd", "ff", "integralZone", "timeout", "settleZone",
     "settleTimeout"}

\* C19: reset() sets error, prevError, derivative and integral to 0 and the
\* starts of the run window and of the settle window to the time of the call,
\* and changes none of kp, ki, kd, ff, integralZone, timeout, settleZone and
\* settleTimeout.
C19_ResetFrame ==
    [][ (now' = now /\ last'.op = "reset") =>
           /\ pid'["pid"].error = 0 /\ pid'["pid"].prevError = 0
           /\ pid'["pid"].derivative = 0 /\ pid'["pid"].integral = 0
           /\ pid'["pid"].startTime = now
           /\ pid'["pid"].startSettledTime = now
           /\ \A f \in Settings : pid'["pid"][f] = pid["pid"][f]
           /\ DOMAIN pid'["pid"] = DOMAIN pid["pid"]
      ]_vars

\* C19 witness: a PID with its gains, zones and timeouts set has been reset
\* after its construction.
C19_Witness ==
    /\ last.op = "reset"
    /\ now > 0
    /\ pid["pid"].startTime = now
    /\ pid["pid"].kp # 1 /\ pid["pid"].ff # 0
    /\ pid["pid"].integralZone # 0
    /\ pid["pid"].timeout # 0 /\ pid["pid"].settleZone # 0
    /\ pid["pid"].settleTimeout # 0

\* C20: a PID constructed by PID() alone has kp = 1, ki = kd = ff = 0 and
\* integralZone = timeout = settleZone = settleTimeout = 0, and its first
\* calculate(e) returns e.
C20_Defaults ==
    /\ (last.op = "new" /\ ~last.chained) =>
          /\ pid["pid"].kp = 1
          /\ pid["pid"].ki = 0 /\ pid["pid"].kd = 0 /\ pid["pid"].ff = 0
          /\ pid["pid"].integralZone = 0 /\ pid["pid"].timeout = 0
          /\ pid["pid"].settleZone = 0 /\ pid["pid"].settleTimeout = 0
    /\ (last.op = "calculate" /\ last.first) => last.val = last.e

\* C20 witness: the first call on a PID constructed by PID() alone was a
\* calculate(e) with a negative error.
C20_Witness ==
    /\ last.op = "calculate"
    /\ last.first
    /\ last.e < 0
    /\ last.val = last.e

----------------------------------------------------------------------------
(* The units and the vectors (SpecUnits): each behaviour is one call on a *)
(* value made for it, and a second constrain() on a constrained Angle     *)

\* the angles of the calls, in whole degrees
MaxAngle == 720

AngleSet == (-MaxAngle)..MaxAngle

\* the numbers converted: halves up to MaxX / 2, of either sign
MaxX == 6

XSet == {Num(n, d, 0) : n \in (-MaxX)..MaxX, d \in {1, 2}}

\* the directions of the vectors, in quarter turns, and their magnitudes
MaxQuarter == 4

MaxMag == 3

QuarterSet == {90 * q : q \in (-MaxQuarter)..MaxQuarter}

InitUnits ==
    /\ now = 0
    /\ pid = <<>>
    /\ last = NoCall
    /\ lastReset = <<>>
    /\ lastUnsettled = <<>>
    /\ TankInit
    /\ TrackInit
    /\ call = Idle
    /\ done = Idle

\* shortestTurnPath(Degrees(a))
CallShortestTurnPath(a) ==
    /\ last = NoCall
    /\ last' = [op |-> "shortestTurnPath", arg |-> a,
                val |-> ShortestTurnPath(a)]
    /\ UNCHANGED <<now, pid, lastReset, lastUnsettled, tankVars, driveVars>>
    /\ UNCHANGED trackVars

\* Angle(Degrees(a)).constrain()
CallConstrain(a) ==
    /\ last = NoCall
    /\ last' = [op |-> "constrain", arg |-> a, val |-> Constrain(a)]
    /\ UNCHANGED <<now, pid, lastReset, lastUnsettled, tankVars, driveVars>>
    /\ UNCHANGED trackVars

\* constrain() again on the Angle the call before has constrained
CallConstrainAgain ==
    /\ last.op = "constrain"
    /\ last' = [op |-> "constrainAgain", arg |-> last.arg, once |-> last.val,
                val |-> Constrain(last.val)]
    /\ UNCHANGED <<now, pid, lastReset, lastUnsettled, tankVars, driveVars>>
    /\ UNCHANGED trackVars

\* Length(Inches(x)).inches() and the like for each unit of Length
CallLength(unit, x) ==
    /\ last = NoCall
    /\ last' = [op |-> "length", unit |-> unit, x |-> x,
                val |-> LengthIn(unit, LengthOf(unit, x))]
    /\ UNCHANGED <<now, pid, lastReset, lastUnsettled, tankVars, driveVars>>
    /\ UNCHANGED trackVars

\* Angle(Degrees(x)).degrees() and the like for each unit of Angle
CallAngle(unit, x) ==
    /\ last = NoCall
    /\ last' = [op |-> "angle", unit |-> unit, x |-> x,
                val |-> AngleIn(unit, AngleOf(unit, x))]
    /\ UNCHANGED <<now, pid, lastReset, lastUnsettled, tankVars, driveVars>>
    /\ UNCHANGED trackVars

\* Vec2::dirAndMag(Degrees(dir), mag).direction()
CallDirAndMag(dir, mag, rx) ==
    /\ last = NoCall
    /\ last' = [op |-> "dirAndMag", dir |-> dir, mag |-> mag,
                vec |-> DirAndMag(dir, mag), rx |-> rx,
                val |-> Direction(DirAndMag(dir, mag), rx)]
    /\ UNCHANGED <<now, pid, lastReset, lastUnsettled, tankVars, driveVars>>
    /\ UNCHANGED trackVars

NextUnits ==
    \/ \E a \in AngleSet : CallShortestTurnPath(a)
    \/ \E a \in AngleSet : CallConstrain(a)
    \/ CallConstrainAgain
    \/ \E unit \in LengthUnits, x \in XSet : CallLength(unit, x)
    \/ \E unit \in AngleUnits, x \in XSet : CallAngle(unit, x)
    \/ \E dir \in QuarterSet, mag \in 1..MaxMag :
          \E rx \in SinResidues(dir) : CallDirAndMag(dir, mag, rx)

SpecUnits == InitUnits /\ [][NextUnits]_vars

\* a and b differ by a whole number of revolutions
SameDirection(a, b) == (a - b) % 360 = 0

\* C24: shortestTurnPath returns an angle of at most half a revolution in
\* size that differs from its argument by a whole number of revolutions.
C24_ShortestTurnPath ==
    last.op = "shortestTurnPath" =>
       /\ Abs(last.val) <= 180
       /\ SameDirection(last.val, last.arg)

\* C24 witness: shortestTurnPath has taken an angle of half a revolution the
\* negative way, more than a revolution away from 0, to half a revolution.
C24_Witness ==
    /\ last.op = "shortestTurnPath"
    /\ last.arg = -540
    /\ last.val = 180

\* C25 as stated: a second constrain() changes nothing, the constrained angle
\* differs from the first one by a whole number of revolutions and lies in
\* (-pi, pi], never at -pi.
C25_ConstrainHalfOpen ==
    /\ last.op = "constrainAgain" => last.val = last.once
    /\ last.op \in {"constrain", "constrainAgain"} =>
          /\ SameDirection(last.val, last.arg)
          /\ -180 < last.val /\ last.val <= 180

\* C25: a second constrain() changes nothing, the constrained angle differs
\* from the first one by a whole number of revolutions and lies in
\* [-pi, pi]; it is -pi exactly for the arguments -pi, -3pi, ..., and pi
\* exactly for pi, 3pi, ...
C25_ConstrainClosed ==
    /\ last.op = "constrainAgain" => last.val = last.once
    /\ last.op \in {"constrain", "constrainAgain"} =>
          /\ SameDirection(last.val, last.arg)
          /\ -180 <= last.val /\ last.val <= 180
          /\ last.val = -180 <=>
                (last.arg < 0 /\ SameDirection(last.arg, 180))
          /\ last.val = 180 <=>
                (last.arg > 0 /\ SameDirection(last.arg, 180))

\* C25 witness: constrain() has been called twice on an angle of a revolution
\* and a half the negative way and has left it at -pi.
C25_Witness ==
    /\ last.op = "constrainAgain"
    /\ last.arg = -540
    /\ last.once = -180
    /\ last.val = -180

\* C26: for every unit of Length and of Angle, the value read in the unit
\* from a quantity constructed from x in that unit is x.
C26_RoundTrip ==
    last.op \in {"length", "angle"} => SameNum(last.val, last.x)

\* C26 witness: a Length constructed from a negative half number of meters
\* and an Angle constructed from a number of degrees have been read back.
C26_Witness ==
    \/ /\ last.op = "length" /\ last.unit = "meters"
       /\ last.x.n < 0 /\ last.x.d = 2
       /\ SameNum(last.val, last.x)
    \/ /\ last.op = "angle" /\ last.unit = "degrees"
       /\ last.x.n > 1
       /\ SameNum(last.val, last.x)

\* the four cardinal directions, in the range of atan2
Cardinal == {0, 90, 180, -90}

\* C27 as stated: dirAndMag(0, m) is (0, m), dirAndMag(pi/2, m) is (m, 0),
\* and direction() of dirAndMag(d, m), m > 0, is d for the four cardinal
\* directions d.
C27_CompassAll ==
    last.op = "dirAndMag" =>
       /\ last.dir = 0 => last.vec = XandY(0, last.mag)
       /\ last.dir = 90 => last.vec = XandY(last.mag, 0)
       /\ last.dir \in Cardinal => last.val = last.dir

\* C27: dirAndMag(0, m) is (0, m), dirAndMag(pi/2, m) is (m, 0), and
\* direction() of dirAndMag(d, m), m > 0, is d for d = 0, pi/2 and -pi/2; for
\* every d of whole quarter turns it is d up to whole revolutions, and for
\* d = pi it is pi or -pi by the sign that the rounding leaves in the x of
\* the vector.
C27_Compass ==
    last.op = "dirAndMag" =>
       /\ last.dir = 0 => last.vec = XandY(0, last.mag)
       /\ last.dir = 90 => last.vec = XandY(last.mag, 0)
       /\ last.dir \in {0, 90, -90} => last.val = last.dir
       /\ SameDirection(last.val, last.dir)
       /\ Abs(last.val) <= 180
       /\ last.dir = 180 => last.val = (IF last.rx < 0 THEN -180 ELSE 180)

\* C27 witness: direction() of a vector made to point at pi, whose x the
\* rounding has left below 0, has returned -pi.
C27_Witness ==
    /\ last.op = "dirAndMag"
    /\ last.dir = 180
    /\ last.mag > 1
    /\ last.vec = XandY(0, -last.mag)
    /\ last.val = -180

----------------------------------------------------------------------------
(* The tracking loop of a SmartDrive (SpecTrack): track() in its thread,   *)
(* the robot moving under it                                               *)

\* the iterations of the loop of track() in a behaviour
MaxIter == 2

\* what m_left.position() and m_right.position() read, in degrees
TrackShafts == {0, 360}

\* what the rotation sensor of the tracker reads, in degrees
TrackerAngles == {0, 90}

\* what the inertial sensor reads as its heading, in degrees
CompassSet == {0, 90, 180, 270}

\* the headings that other code stores in m_dir
InjectSet == {90, -90}

\* the m_tracker made by withHorizontalTracker(rotation, wheelSize,
\* gearRatio, wheelOffset)
HorizontalTracker(wheelSize, gearRatio, wheelOffset) ==
    [rotation |-> TRUE, wheelSize |-> wheelSize, gearRatio |-> gearRatio,
     lastAngle |-> 0, offset |-> wheelOffset]

\* the SmartDrives of the behaviours: wheels of 3 pixels across without a
\* tracker, and with a tracker wheel of 2 pixels across, set at the center or
\* 5 units ahead of it
DriveChoices ==
    {NewSmartDrive(3, 1, NoTracker),
     NewSmartDrive(3, 1, HorizontalTracker(2, 1, 0)),
     NewSmartDrive(3, 1, HorizontalTracker(2, 1, 5))}

InitTrack ==
    /\ now = 0
    /\ pid = <<>>
    /\ last = NoCall
    /\ lastReset = <<>>
    /\ lastUnsettled = <<>>
    /\ TankInit
    /\ call = Idle
    /\ done = Idle
    /\ odom \in DriveChoices
    /\ sensors = NewSensors

\* Vec2::operator+
VecPlus(a, b) == XandY(a.x + b.x, a.y + b.y)

\* vex::inertial::heading() after setHeading(h): in [0, 360)
Heading360(h) == h % 360

\* isCalibrating() that is false at once
CalibratingNever(s) == FALSE

\* m_inert.isCalibrating()
Calibrating(s) == s.calibrating

\* the test of track() that never finds m_dir changed
HeadingChangedNever(o) == FALSE

\* m_dir != prevDir
HeadingChanged(o) == o.dir # o.prevDir

\* the travel of a wheel for one revolution taken as its diameter times pi/2
GetWheelTravelHalved(o) == 2 * o.wheelSize * o.gearRatio

\* SmartDrive::getWheelTravel(): M_PI * m_wheelSize * m_gearRatio
GetWheelTravel(o) == 4 * o.wheelSize * o.gearRatio

\* Length(wheelTravel.revolutions() * getWheelTravel()) for the travels dl and
\* dr of the two sides, in degrees
TravelOf(o, dl, dr) == ((dl + dr) * GetWheelTravel(o)) \div 720

\* HorizontalTracker::getTravel() for a change da of the sensor, in degrees:
\* m_travelAngle * (m_wheelSize / 2.0) * m_gearRatio
TrackerTravelOf(t, da) == (da * t.wheelSize * t.gearRatio) \div 90

\* the heading of the tracker taken a quarter turn the other way
TrackerHeadingLeft(dir) == dir - 90

\* m_dir + Degrees(90)
TrackerHeading(dir) == dir + 90

\* the start of track() that takes the shaft angles it finds as the baseline
TrackStartFromShafts ==
    /\ odom.pc = "idle"
    /\ odom' = [odom EXCEPT !.pc = "calibrating",
                            !.lastLeftPos = sensors.left,
                            !.lastRightPos = sensors.right]
    /\ sensors' = [sensors EXCEPT
                      !.rotation = IF odom.tracker.rotation THEN 0 ELSE @]
    /\ last' = [op |-> "trackStart"]
    /\ UNCHANGED <<now, pid, lastReset, lastUnsettled, tankVars, driveVars>>

\* the start of track(): the rotation sensor of the tracker is set to 0
TrackStart ==
    /\ odom.pc = "idle"
    /\ odom' = [odom EXCEPT !.pc = "calibrating"]
    /\ sensors' = [sensors EXCEPT
                      !.rotation = IF odom.tracker.rotation THEN 0 ELSE @]
    /\ last' = [op |-> "trackStart"]
    /\ UNCHANGED <<now, pid, lastReset, lastUnsettled, tankVars, driveVars>>

\* while (m_inert.isCalibrating()) wait(5 ms)
TrackWait ==
    /\ odom.pc = "calibrating"
    /\ Calibrating(sensors)
    /\ last' = [op |-> "trackWait"]
    /\ UNCHANGED <<now, pid, lastReset, lastUnsettled, tankVars, driveVars,
                   trackVars>>

\* the heading an iteration reads, after the setHeading(m_dir) it may make
SyncedHeading(o, s) ==
    IF HeadingChanged(o) THEN Heading360(o.dir) ELSE s.heading

\* the posChange of an iteration that starts with the members o and finds the
\* devices as s
PosChangeOf(o, s) ==
    LET heading == SyncedHeading(o, s)
        travel == TravelOf(o, s.left - o.lastLeftPos,
                           s.right - o.lastRightPos)
        t == o.tracker
        hTravel == TrackerTravelOf(t, s.rotation - t.lastAngle)
    IN  IF t.rotation
        THEN VecPlus(DirAndMag(heading, travel),
                     DirAndMag(TrackerHeading(heading), hTravel))
        ELSE DirAndMag(heading, travel)

\* the reads of an iteration without the assignment prevDir = m_dir
AfterReadsKeepsPrevDir(o, s) ==
    [o EXCEPT !.dir = SyncedHeading(o, s),
              !.lastLeftPos = s.left,
              !.lastRightPos = s.right,
              !.sumLeft = @ + (s.left - o.lastLeftPos),
              !.sumRight = @ + (s.right - o.lastRightPos),
              !.tracker = IF o.tracker.rotation
                          THEN [o.tracker EXCEPT !.lastAngle = s.rotation]
                          ELSE o.tracker]

\* the members after the reads of an iteration: m_dir and prevDir, the last
\* shaft angles and the last angle of the tracker
AfterReads(o, s) ==
    [o EXCEPT !.dir = SyncedHeading(o, s),
              !.prevDir = SyncedHeading(o, s),
              !.lastLeftPos = s.left,
              !.lastRightPos = s.right,
              !.sumLeft = @ + (s.left - o.lastLeftPos),
              !.sumRight = @ + (s.right - o.lastRightPos),
              !.tracker = IF o.tracker.rotation
                          THEN [o.tracker EXCEPT !.lastAngle = s.rotation]
                          ELSE o.tracker]

\* a center position that is the position
CenterOfPosition(pos, dir, offset) == pos

\* m_pos + Vec2::dirAndMag(m_dir, m_tracker.m_offset)
CenterOf(pos, dir, offset) == VecPlus(pos, DirAndMag(dir, offset))

\* the loop of track() is at the top of an iteration
AtLoopTop ==
    \/ odom.pc = "loop"
    \/ odom.pc = "calibrating" /\ ~Calibrating(sensors)

\* one iteration of the loop of track()
TrackIterate ==
    /\ AtLoopTop
    /\ odom.iters < MaxIter
    /\ LET heading == SyncedHeading(odom, sensors)
           pos == VecPlus(odom.pos, PosChangeOf(odom, sensors))
       IN  /\ sensors' = [sensors EXCEPT !.heading = heading]
           /\ odom' = [AfterReads(odom, sensors) EXCEPT
                 !.pc = "loop",
                 !.iters = @ + 1,
                 !.pos = pos,
                 !.centerPos = CenterOf(pos, heading, odom.tracker.offset)]
           /\ last' = [op |-> "track", set |-> HeadingChanged(odom),
                       deg |-> IF HeadingChanged(odom) THEN odom.dir ELSE 0,
                       fresh |-> (last.op = "trackStart")]
    /\ UNCHANGED <<now, pid, lastReset, lastUnsettled, tankVars, driveVars>>

\* the inertial sensor ends its calibration
CalibrationEnds ==
    /\ sensors.calibrating
    /\ sensors' = [sensors EXCEPT !.calibrating = FALSE]
    /\ last' = NoCall
    /\ UNCHANGED <<now, pid, lastReset, lastUnsettled, tankVars, driveVars,
                   odom>>

\* the shafts of the two sides turn to the positions l and r
ShaftsTurn(l, r) ==
    /\ <<l, r>> # <<sensors.left, sensors.right>>
    /\ sensors' = [sensors EXCEPT !.left = l, !.right = r]
    /\ last' = NoCall
    /\ UNCHANGED <<now, pid, lastReset, lastUnsettled, tankVars, driveVars,
                   odom>>

\* the robot turns to the heading h
HeadingTurns(h) ==
    /\ h # sensors.heading
    /\ sensors' = [sensors EXCEPT !.heading = h]
    /\ last' = NoCall
    /\ UNCHANGED <<now, pid, lastReset, lastUnsettled, tankVars, driveVars,
                   odom>>

\* the wheel of the tracker turns to the position a
TrackerTurns(a) ==
    /\ odom.tracker.rotation
    /\ a # sensors.rotation
    /\ sensors' = [sensors EXCEPT !.rotation = a]
    /\ last' = NoCall
    /\ UNCHANGED <<now, pid, lastReset, lastUnsettled, tankVars, driveVars,
                   odom>>

\* other code stores a corrected heading h in m_dir
InjectHeading(h) ==
    /\ h # odom.dir
    /\ odom' = [odom EXCEPT !.dir = h]
    /\ last' = NoCall
    /\ UNCHANGED <<now, pid, lastReset, lastUnsettled, tankVars, driveVars,
                   sensors>>

NextTrack ==
    \/ TrackStart
    \/ TrackWait
    \/ TrackIterate
    \/ CalibrationEnds
    \/ \E l \in TrackShafts, r \in TrackShafts : ShaftsTurn(l, r)
    \/ \E h \in CompassSet : HeadingTurns(h)
    \/ \E a \in TrackerAngles : TrackerTurns(a)
    \/ \E h \in InjectSet : InjectHeading(h)

SpecTrack == InitTrack /\ [][NextTrack]_vars

\* the step is an iteration of the loop of track()
Iterates == last'.op = "track"

\* the pose of a SmartDrive and the last shaft angles of its two sides
PoseOf(o) ==
    [pos |-> o.pos, centerPos |-> o.centerPos, dir |-> o.dir,
     lastLeftPos |-> o.lastLeftPos, lastRightPos |-> o.lastRightPos]

\* C22: without a tracker and with a gear ratio of 1, an iteration that finds
\* both shafts one revolution further and the heading it had before adds
\* pi * D along the heading to the position, D the diameter of the wheels:
\* (0, pi * D) at a heading of 0 and (pi * D, 0) at a heading of 90 degrees.
C22_OneRevolution ==
    [][ ( /\ Iterates
          /\ ~odom.tracker.rotation
          /\ odom.gearRatio = 1
          /\ sensors.left - odom.lastLeftPos = 360
          /\ sensors.right - odom.lastRightPos = 360
          /\ odom'.dir = odom.dir ) =>
        LET piD == 4 * odom.wheelSize
            dx == odom'.pos.x - odom.pos.x
            dy == odom'.pos.y - odom.pos.y
        IN  /\ odom'.dir = 0 => (dx = 0 /\ dy = piD)
            /\ odom'.dir = 90 => (dx = piD /\ dy = 0)
            /\ odom'.dir = 180 => (dx = 0 /\ dy = -piD)
            /\ odom'.dir = 270 => (dx = -piD /\ dy = 0)
      ]_vars

\* C22 witness: the first iteration, at the heading 0 the drive had from its
\* construction, has found both shafts one revolution on and has put the
\* position at (0, pi * D) for the wheels of 3 pixels.
C22_Witness ==
    /\ last.op = "track" /\ ~last.set
    /\ ~odom.tracker.rotation
    /\ odom.iters = 1
    /\ odom.dir = 0
    /\ odom.lastLeftPos = 360 /\ odom.lastRightPos = 360
    /\ odom.pos = XandY(0, 12)
    /\ odom.centerPos = odom.pos

C28_CalibrationBlocks ==
    /\ [](sensors.calibrating =>
             /\ odom.iters = 0
             /\ odom.pc \in {"idle", "calibrating"}
             /\ odom.pos = XandY(0, 0) /\ odom.centerPos = XandY(0, 0)
             /\ odom.lastLeftPos = 0 /\ odom.lastRightPos = 0
             /\ odom.tracker.lastAngle = 0
             /\ odom.prevDir = 0)
    /\ [][ (sensors.calibrating /\ last'.op # "none") =>
             /\ last'.op \in {"trackStart", "trackWait"}
             /\ PoseOf(odom') = PoseOf(odom)
             /\ sensors'.heading = sensors.heading
             /\ sensors'.calibrating
         ]_vars

\* C28 witness: track() is waiting on the calibration while the robot has
\* been turned and pushed a revolution of its left side, the pose untouched.
C28_Witness ==
    /\ last.op = "trackWait"
    /\ sensors.calibrating
    /\ sensors.heading = 90
    /\ sensors.left = 360
    /\ odom.pc = "calibrating"
    /\ odom.lastLeftPos = 0
    /\ odom.dir = 0
    /\ odom.pos = XandY(0, 0)

\* C29: an iteration that finds m_dir different from the heading the
\* iteration before left calls setHeading(m_dir) and then reads the heading,
\* so that the sensor and the tracked heading take the value found; an
\* iteration that finds it the same leaves the sensor alone and takes the
\* tracked heading from the sensor; the value compared with is only written
\* by an iteration, as the heading it read.
C29_HeadingResync ==
    [][ /\ Iterates =>
              /\ odom.dir # odom.prevDir =>
                    /\ last'.set /\ last'.deg = odom.dir
                    /\ sensors'.heading = Heading360(odom.dir)
                    /\ odom'.dir = Heading360(odom.dir)
              /\ odom.dir = odom.prevDir =>
                    /\ ~last'.set
                    /\ sensors'.heading = sensors.heading
                    /\ odom'.dir = sensors.heading
              /\ odom'.prevDir = odom'.dir
        /\ odom'.prevDir # odom.prevDir => Iterates
      ]_vars

\* C29 witness: a heading of -90 degrees stored in m_dir after an iteration
\* has been given to the sensor by the next one, which has read it back as
\* 270 degrees.
C29_Witness ==
    /\ last.op = "track"
    /\ last.set /\ last.deg = -90
    /\ odom.iters = 2
    /\ sensors.heading = 270
    /\ odom.dir = 270

\* C30: with a tracker, an iteration adds to the position the travel of the
\* wheels along the heading and the travel of the tracker, the change of its
\* angle in radians times half its wheel size times its gear ratio, along
\* the heading plus 90 degrees: at a heading of 0 a travel h of the tracker
\* adds (h, 0).
C30_LateralTravel ==
    [][ (Iterates /\ odom.tracker.rotation) =>
        LET t == odom.tracker
            \* radians * wheelSize / 2 * gearRatio, in units of pi/4
            h == ((sensors.rotation - t.lastAngle) * t.wheelSize
                    * t.gearRatio) \div 90
            w == TravelOf(odom, sensors.left - odom.lastLeftPos,
                          sensors.right - odom.lastRightPos)
            dx == odom'.pos.x - odom.pos.x
            dy == odom'.pos.y - odom.pos.y
        IN  /\ odom'.dir = 0 => (dx = h /\ dy = w)
            /\ odom'.dir = 90 => (dx = w /\ dy = -h)
            /\ odom'.dir = 180 => (dx = -h /\ dy = -w)
            /\ odom'.dir = 270 => (dx = -w /\ dy = h)
            /\ odom'.tracker.lastAngle = sensors.rotation
      ]_vars

\* C30 witness: the first iteration, at a heading of 0 and with the shafts at
\* rest, has found the tracker wheel of 2 pixels a quarter turn on and has
\* put the position at (pi / 2, 0), the center 5 units ahead of it.
C30_Witness ==
    /\ last.op = "track"
    /\ odom.tracker.rotation
    /\ odom.iters = 1
    /\ odom.dir = 0
    /\ odom.lastLeftPos = 0 /\ odom.lastRightPos = 0
    /\ odom.tracker.lastAngle = 90
    /\ odom.pos = XandY(2, 0)
    /\ odom.centerPos = XandY(2, 5)

----------------------------------------------------------------------------
(* The commands of a TankDrive, again (SpecTank) *)

\* C33: after every sequence of arcade(x, y, rot), arcade(drive, rot), tank,
\* LeftSplitArcade, LeftSplitArcadeCurved and update calls the left group
\* holds cmdY + cmdRot and the right group cmdY - cmdRot, whatever their
\* size, and arcade(drive, rot) and tank leave the stored cmdX as it was.
C33_SidesFollowCommands ==
    /\ [](leftCmd = cmdY + cmdRot /\ rightCmd = cmdY - cmdRot)
    /\ [][ last'.op \in {"arcade", "tank"} => cmdX' = cmdX ]_vars

\* C33 witness: after an arcade(x, y, rot) with x not 0, a tank(left, right)
\* has kept x and has left a command of more than 100 with the left group
\* and of less than -100 with the right group in two calls.
C33_Witness ==
    /\ last.op = "tank"
    /\ cmdX = MidCmd
    /\ cmdY = 0
    /\ leftCmd = 2 * MaxCmd
    /\ rightCmd = -2 * MaxCmd

----------------------------------------------------------------------------
(* The motion primitives, again (SpecDrive) *)

\* C34: at every loop check of turnTo with an error that is not 0 the loop
\* condition holds, the sign it compares being the sign of that same error;
\* so turnTo returns only with a last error under 5 degrees (0 included),
\* stopped, and every other pass, a pass that finds the error on the other
\* side of 0 included, commands the speed again and stays in the loop.
C34_TurnToExit ==
    /\ []((call.op = "turnTo" /\ call.sample # 0) =>
              /\ SameSign(call.errorSign, call.sample)
              /\ TurnToGoesOn(call))
    /\ [][ /\ (call.op = "turnTo" /\ Returns) =>
                 /\ Abs(AngleDegrees(done'.sample)) < 5
                 /\ Stopped'
           /\ (call.op = "turnTo" /\ Passes) =>
                 /\ ~(Abs(AngleDegrees(call'.sample)) < 5)
                 /\ cmdY' = 0 /\ cmdRot' = call.speed
                 /\ leftCmd' = call.speed /\ rightCmd' = -call.speed
         ]_vars

\* C34 witness: a turnTo has found its error on the other side of 0, between
\* 5 and 10 degrees, and is in its loop, still commanding its speed.
C34_Witness ==
    /\ SignChanged
    /\ call.iters >= 2
    /\ TurnToGoesOn(call)
    /\ cmdRot = call.speed
    /\ leftCmd = call.speed /\ rightCmd = -call.speed

\* the PID p has neither a timeout nor a settle timeout, as PID() leaves it
Unconfigured(p) == p.timeout = 0 /\ p.settleTimeout = 0

\* the pass and the return of the PID primitive op
PIDPass(op) ==
    CASE op = "driveForPID" -> DriveForPIDLoop
      [] op = "turnForPID" -> TurnForPIDLoop
      [] op = "turnToPID" -> TurnToPIDLoop

PIDReturn(op) ==
    CASE op = "driveForPID" -> DriveForPIDReturn
      [] op = "turnForPID" -> TurnForPIDReturn
      [] op = "turnToPID" -> TurnToPIDReturn

\* C35: a PID primitive whose own PID has timeout = 0 and settleTimeout = 0
\* never returns: at every loop check of it, however long after the call,
\* isCompleted() is false, the return is not possible and another pass is,
\* and no such primitive has ever returned and commanded zero.
C35_UnconfiguredNeverReturns ==
    /\ (InPIDLoop /\ Unconfigured(pid[call.op])) =>
          /\ ~IsCompleted(pid[call.op], now)
          /\ ~ ENABLED PIDReturn(call.op)
          /\ RoomToWait => ENABLED (PIDPass(call.op) /\ call'.op = call.op)
    /\ (call.op = "idle" /\ done.op \in PIDNames) =>
          ~Unconfigured(pid[done.op])

\* C35 witness: a driveForPID with a PID as PID() leaves it is in its loop
\* after as many passes as the time covered allows, commanding its output.
C35_Witness ==
    /\ call.op = "driveForPID"
    /\ Unconfigured(pid[call.op])
    /\ call.iters = MaxPasses
    /\ PIDOutput(pid[call.op]) # 0
    /\ leftCmd = PIDOutput(pid[call.op])

----------------------------------------------------------------------------
(* A PID object and its user, again (SpecPID) *)

\* the PID has not been reset() and has been fed no error outside its settle
\* zone since its construction
Untouched == lastReset["pid"] = -1 /\ lastUnsettled["pid"] = -1

C31_CenterPosition ==
    /\ []((~odom.tracker.rotation \/ odom.tracker.offset = 0) =>
              odom.centerPos = odom.pos)
    /\ [][ Iterates =>
             /\ odom'.centerPos.x =
                   odom'.pos.x + odom'.tracker.offset * Sin(odom'.dir)
             /\ odom'.centerPos.y =
                   odom'.pos.y + odom'.tracker.offset * Cos(odom'.dir)
             /\ odom'.tracker.offset = odom.tracker.offset ]_vars

\* C31 witness: a tracker 5 units ahead of the center; the first iteration
\* has read one revolution of both sides at a heading of 90 degrees, which
\* puts the position at (12, 0) and the center position at (17, 0).
C31_Witness ==
    /\ last.op = "track"
    /\ odom.iters = 1
    /\ odom.tracker.rotation /\ odom.tracker.offset = 5
    /\ odom.dir = 90
    /\ odom.pos = XandY(12, 0)
    /\ odom.centerPos = XandY(17, 0)

\* C38: the shaft travel of each side telescopes against a baseline of 0:
\* track() starts without touching the last shaft angles, every iteration
\* takes from each side the difference between the angle it reads and the
\* last one, so that the sum of what has been taken is the angle read last;
\* the first iteration takes the whole angle that the shafts show.
C38_TravelTelescopes ==
    /\ [](/\ odom.sumLeft = odom.lastLeftPos
          /\ odom.sumRight = odom.lastRightPos
          /\ odom.iters = 0 => odom.lastLeftPos = 0 /\ odom.lastRightPos = 0)
    /\ [][ Iterates =>
             /\ odom'.lastLeftPos = sensors.left
             /\ odom'.lastRightPos = sensors.right
             /\ odom'.sumLeft - odom.sumLeft = sensors.left - odom.lastLeftPos
             /\ odom'.sumRight - odom.sumRight =
                   sensors.right - odom.lastRightPos
             /\ (odom.iters = 0 /\ ~odom.tracker.rotation) =>
                   odom'.pos = DirAndMag(odom'.dir,
                                  TravelOf(odom, sensors.left, sensors.right))
         ]_vars

\* C38 witness: the shafts showed one revolution when track() started; the
\* iteration that followed at once has taken the whole of it, 12 units ahead.
C38_Witness ==
    /\ last.op = "track" /\ last.fresh
    /\ odom.iters = 1
    /\ ~odom.tracker.rotation
    /\ odom.dir = 0
    /\ odom.sumLeft = 360 /\ odom.sumRight = 360
    /\ odom.pos = XandY(0, 12)

(***************************************************************************)
(* The tracking loop of a SmartDrive whose heading nobody else writes      *)
(* (SpecTrackAlone): m_dir is private and written by track() only.         *)
(***************************************************************************)
NextTrackAlone ==
    \/ TrackStart
    \/ TrackWait
    \/ TrackIterate
    \/ CalibrationEnds
    \/ \E l \in TrackShafts, r \in TrackShafts : ShaftsTurn(l, r)
    \/ \E h \in CompassSet : HeadingTurns(h)
    \/ \E a \in TrackerAngles : TrackerTurns(a)

SpecTrackAlone == InitTrack /\ [][NextTrackAlone]_vars

\* C39: with no writer of m_dir but track(), m_dir = prevDir in every state,
\* so that no iteration calls setHeading: the heading of the inertial sensor
\* changes only when the robot turns.
C39_NoSetHeading ==
    /\ [](odom.dir = odom.prevDir)
    /\ [][ /\ Iterates =>
                /\ ~HeadingChanged(odom)
                /\ ~last'.set
                /\ sensors'.heading = sensors.heading
                /\ odom'.dir = sensors.heading
           /\ sensors'.heading # sensors.heading => last'.op = "none" ]_vars

\* C39 witness: two iterations, the robot having turned from 0 to 90 degrees
\* between them: the first went 12 units along y, the second went back one
\* revolution along x, and neither has set the heading of the sensor.
C39_Witness ==
    /\ last.op = "track" /\ ~last.set
    /\ odom.iters = 2
    /\ ~odom.tracker.rotation
    /\ odom.dir = 90 /\ odom.prevDir = 90
    /\ sensors.heading = 90
    /\ odom.pos = XandY(-12, 12)

(***************************************************************************)
(* The tracking loop and a reader of the pose (SpecRead).  track() runs in *)
(* a thread of its own and takes no lock, so another thread runs between   *)
(* any two of its assignments.  An iteration is three steps here: its      *)
(* reads, which end with m_dir and prevDir written, the assignment of      *)
(* m_pos and the assignment of m_centerPos; odom.locals holds posChange    *)
(* between them, and the members as they were before the iteration         *)
(* (history).  The reader copies m_dir, m_pos and m_centerPos in one step, *)
(* which is the most a reader without a lock can hope for.  The two sides *)
(* of the robot turn together here; it may turn and slip sideways.         *)
(***************************************************************************)
InitRead ==
    /\ InitTrack
    /\ odom = NewSmartDrive(3, 1, HorizontalTracker(2, 1, 5))

\* the members and the locals after the reads of an iteration
Interrupted(o, s) ==
    [AfterReads(o, s) EXCEPT
        !.locals = [posChange |-> PosChangeOf(o, s),
                    dirBefore |-> o.dir,
                    posBefore |-> o.pos,
                    centerBefore |-> o.centerPos]]

\* reads that assign m_pos as well
TrackReadsAndWrites ==
    /\ AtLoopTop
    /\ odom.iters < MaxIter
    /\ sensors' = [sensors EXCEPT !.heading = SyncedHeading(odom, sensors)]
    /\ odom' = [Interrupted(odom, sensors) EXCEPT
                   !.pc = "writePos",
                   !.pos = VecPlus(@, PosChangeOf(odom, sensors))]
    /\ last' = [op |-> "trackReads"]
    /\ UNCHANGED <<now, pid, lastReset, lastUnsettled, tankVars, driveVars>>

\* the iteration up to the assignment of m_pos
TrackReads ==
    /\ AtLoopTop
    /\ odom.iters < MaxIter
    /\ sensors' = [sensors EXCEPT !.heading = SyncedHeading(odom, sensors)]
    /\ odom' = [Interrupted(odom, sensors) EXCEPT !.pc = "writePos"]
    /\ last' = [op |-> "trackReads"]
    /\ UNCHANGED <<now, pid, lastReset, lastUnsettled, tankVars, driveVars>>

\* m_pos = m_pos + posChange
TrackWritesPos ==
    /\ odom.pc = "writePos"
    /\ odom' = [odom EXCEPT !.pc = "writeCenter",
                            !.pos = VecPlus(@, odom.locals.posChange)]
    /\ last' = [op |-> "trackWritesPos"]
    /\ UNCHANGED <<now, pid, lastReset, lastUnsettled, tankVars, driveVars,
                   sensors>>

\* m_centerPos = m_pos + Vec2::dirAndMag(m_dir, m_tracker.m_offset), the end
\* of the iteration
TrackWritesCenter ==
    /\ odom.pc = "writeCenter"
    /\ odom' = [odom EXCEPT
                   !.pc = "loop",
                   !.iters = @ + 1,
                   !.locals = <<>>,
                   !.centerPos = CenterOf(odom.pos, odom.dir,
                                          odom.tracker.offset)]
    /\ last' = [op |-> "trackWritesCenter"]
    /\ UNCHANGED <<now, pid, lastReset, lastUnsettled, tankVars, driveVars,
                   sensors>>

\* another thread copies the pose
ReadPose ==
    /\ last.op # "readPose"
    /\ last' = [op |-> "readPose", dir |-> odom.dir, pos |-> odom.pos,
                centerPos |-> odom.centerPos]
    /\ UNCHANGED <<now, pid, lastReset, lastUnsettled, tankVars, driveVars,
                   trackVars>>

NextRead ==
    \/ TrackStart
    \/ TrackWait
    \/ TrackReads
    \/ TrackWritesPos
    \/ TrackWritesCenter
    \/ ReadPose
    \/ CalibrationEnds
    \/ \E a \in TrackShafts : ShaftsTurn(a, a)
    \/ \E h \in CompassSet : HeadingTurns(h)
    \/ \E a \in TrackerAngles : TrackerTurns(a)

SpecRead == InitRead /\ [][NextRead]_vars

\* the copy that the reader holds has the center position that belongs to
\* its position and its heading
Coherent(copy) ==
    copy.centerPos =
        VecPlus(copy.pos, DirAndMag(copy.dir, odom.tracker.offset))

\* C32: a copy of the pose taken between two iterations is the pose that the
\* last iteration left; a copy taken after the reads of an iteration has the
\* heading of this iteration with the position and the center position of
\* the previous one, and a copy taken after the assignment of m_pos has the
\* new position with the center position of the previous iteration.
C32_TornReads ==
    last.op = "readPose" =>
        /\ last.dir = odom.dir
        /\ last.pos = odom.pos
        /\ last.centerPos = odom.centerPos
        /\ odom.pc = "loop" => Coherent(last)
        /\ odom.pc = "writePos" =>
              /\ last.dir = odom.prevDir
              /\ last.pos = odom.locals.posBefore
              /\ last.centerPos = odom.locals.centerBefore
        /\ odom.pc = "writeCenter" =>
              /\ last.dir = odom.prevDir
              /\ last.pos = VecPlus(odom.locals.posBefore,
                                    odom.locals.posChange)
              /\ last.centerPos = odom.locals.centerBefore
              /\ odom.iters > 0 =>
                    last.centerPos =
                        VecPlus(odom.locals.posBefore,
                                DirAndMag(odom.locals.dirBefore,
                                          odom.tracker.offset))

\* C32 witness: after one iteration at a heading of 0 the robot has turned to
\* 90 degrees and its shafts have turned; the reader has copied the pose after
\* the reads of the second iteration: a heading of 90 degrees with the
\* position of the first iteration, which the second is about to change.
C32_Witness ==
    /\ last.op = "readPose"
    /\ odom.pc = "writePos"
    /\ odom.iters = 1
    /\ odom.locals.dirBefore = 0
    /\ last.dir = 90
    /\ last.pos = odom.locals.posBefore
    /\ odom.locals.posChange # XandY(0, 0)
    /\ Coherent([last EXCEPT !.dir = 0])
    /\ ~Coherent(last)

\* the other torn copy: taken after the assignment of m_pos in the second
\* iteration, it has the new position with a center position that is not the
\* position plus the offset along the heading.
C32_WitnessCenter ==
    /\ last.op = "readPose"
    /\ odom.pc = "writeCenter"
    /\ odom.iters = 1
    /\ last.dir = odom.locals.dirBefore
    /\ last.pos # odom.locals.posBefore
    /\ ~Coherent(last)
====
